---------------------------- MODULE Spec2Model ----------------------------
(***************************************************************************)
(* A model of the sprout_compiler crate: the sandboxed interpreter         *)
(* (runtime.rs over the flat AST of ast.rs), the compile pipeline of       *)
(* lib.rs (source screening, tokenizer and recursive-descent parser of     *)
(* parser.rs, SecurityAnalyzer of security.rs) and the reference          *)
(* validator of enhanced_parser.rs.                                        *)
(*                                                                         *)
(* Rust strings are modelled as sequences of one-character strings, so     *)
(* that contains / trim / parse / split act on the text itself.            *)
(* i64 is modelled with IntBits bits (two's complement): the interpreter's *)
(* iteration cap of 100 stays below 2^(IntBits-1) as it does below 2^63.   *)
(***************************************************************************)
EXTENDS Integers, Sequences, FiniteSets, TLC

VARIABLES
    runtime,          \* the WasmRuntime instance (state, options, memory_usage, execution_log)
    result,           \* what the last call of execute returned
    call,             \* the arguments of the last call of execute
    runs,             \* number of execute calls made so far
    overflow_checks,  \* build profile: TRUE = overflow panics (debug), FALSE = wraps (release)
    creq,             \* the last request to the compile pipeline
    cres,             \* what the compile pipeline returned for it
    areq,             \* the last program handed to the parser / reference validator
    ares              \* what they returned

vars == <<runtime, result, call, runs, overflow_checks, creq, cres, areq, ares>>

---------------------------------------------------------------------------
(* Bounds of the model *)

\* width of the modelled i64
IntBits == 8
\* execute calls per behaviour on one runtime instance
MaxRuns == 2

---------------------------------------------------------------------------
(* Result<(), E> and Option<T> as sequences of length 0 or 1 *)

\* `let v = value; ..` is Only([v \in {value} |-> ..]): the one value of a
\* function of one argument, so that value is computed once
Only(f) == CHOOSE out \in {g[CHOOSE k \in DOMAIN g : TRUE] : g \in {f}} : TRUE

Ok == <<>>
Err(m) == <<m>>
None == <<>>
Some(x) == <<x>>

Min(a, b) == IF a <= b THEN a ELSE b
Max(a, b) == IF a >= b THEN a ELSE b
SetMin(S) == CHOOSE x \in S : \A y \in S : x <= y
SetMax(S) == CHOOSE x \in S : \A y \in S : x >= y

---------------------------------------------------------------------------
(* i64 arithmetic at IntBits bits *)

RECURSIVE Pow2(_)
Pow2(n) == IF n = 0 THEN 1 ELSE 2 * Pow2(n - 1)

MinInt == -Pow2(IntBits - 1)
MaxInt == Pow2(IntBits - 1) - 1
InI64(x) == MinInt <= x /\ x <= MaxInt
\* two's complement wrap-around of a mathematical integer
Wrap(x) == ((x - MinInt) % Pow2(IntBits)) + MinInt

---------------------------------------------------------------------------
(* str: text as a sequence of characters *)

IsWs(c) == c \in {" ", "\n", "\t"}
Digit == {"0", "1", "2", "3", "4", "5", "6", "7", "8", "9"}
DigitVal(c) ==
    CASE c = "0" -> 0 [] c = "1" -> 1 [] c = "2" -> 2 [] c = "3" -> 3 [] c = "4" -> 4
      [] c = "5" -> 5 [] c = "6" -> 6 [] c = "7" -> 7 [] c = "8" -> 8 [] c = "9" -> 9
DigitChar(d) ==
    CASE d = 0 -> "0" [] d = 1 -> "1" [] d = 2 -> "2" [] d = 3 -> "3" [] d = 4 -> "4"
      [] d = 5 -> "5" [] d = 6 -> "6" [] d = 7 -> "7" [] d = 8 -> "8" [] d = 9 -> "9"

\* str::contains(pat)
contains(s, p) ==
    \E i \in 1..(Len(s) - Len(p) + 1) : SubSeq(s, i, i + Len(p) - 1) = p
\* str::find(pat): the first index (1-based) or 0
find(s, p) ==
    IF contains(s, p)
    THEN SetMin({i \in 1..(Len(s) - Len(p) + 1) : SubSeq(s, i, i + Len(p) - 1) = p})
    ELSE 0
starts_with(s, p) == Len(s) >= Len(p) /\ SubSeq(s, 1, Len(p)) = p
ends_with(s, p) == Len(s) >= Len(p) /\ SubSeq(s, Len(s) - Len(p) + 1, Len(s)) = p
\* str::trim()
trim(s) ==
    LET keep == {i \in 1..Len(s) : ~IsWs(s[i])}
    IN  IF keep = {} THEN <<>>
        ELSE SubSeq(s, SetMin(keep), CHOOSE j \in keep : \A k \in keep : k <= j)

\* the value of a digit string, saturating just above the i64 range
RECURSIVE DecVal(_, _)
DecVal(s, acc) ==
    IF s = <<>> THEN acc
    ELSE DecVal(Tail(s), Min(acc * 10 + DigitVal(Head(s)), MaxInt + 2))

\* str::parse::<i64>(): an optional sign, then one or more digits, within range
parse_i64(s) ==
    LET signed == s # <<>> /\ Head(s) \in {"+", "-"}
        digits == IF signed THEN Tail(s) ELSE s
        mag    == DecVal(digits, 0)
        val    == IF signed /\ Head(s) = "-" THEN -mag ELSE mag
    IN  IF digits = <<>> \/ \E i \in 1..Len(digits) : digits[i] \notin Digit
        THEN None
        ELSE IF InI64(val) THEN Some(val) ELSE None

\* i64 -> decimal text (format!("{}", n)), used to build range texts
RECURSIVE NatStr(_)
NatStr(n) == IF n < 10 THEN <<DigitChar(n)>> ELSE NatStr(n \div 10) \o <<DigitChar(n % 10)>>
IntStr(n) == IF n < 0 THEN <<"-">> \o NatStr(-n) ELSE NatStr(n)

\* a text of n copies of one character
Rep(c, n) == [i \in 1..n |-> c]

---------------------------------------------------------------------------
(* Text literals used by the code *)

T_eval == <<"e", "v", "a", "l">>
T_exec == <<"e", "x", "e", "c">>
T_eval_call == <<"e", "v", "a", "l", "(">>
T_exec_call == <<"e", "x", "e", "c", "(">>
T_true == <<"t", "r", "u", "e">>
T_false == <<"f", "a", "l", "s", "e">>
T_quote == <<"\"">>
T_dotdot == <<".", ".">>
T_eqeq == <<"=", "=">>
T_script == <<"<", "s", "c", "r", "i", "p", "t", ">">>
T_javascript == <<"j", "a", "v", "a", "s", "c", "r", "i", "p", "t", ":">>
T_http == <<"h", "t", "t", "p", ":", "/", "/">>
T_http_localhost ==
    <<"h", "t", "t", "p", ":", "/", "/", "l", "o", "c", "a", "l", "h", "o", "s", "t">>

\* the denylist test the interpreter and the flat AST share
Dangerous(s) == contains(s, T_eval) \/ contains(s, T_exec)

---------------------------------------------------------------------------
(* ast.rs: ValueType, StateVariable, UiElement, Action, Screen, App *)

VString(s) == [t |-> "String", v |-> s]
VNumber(n) == [t |-> "Number", v |-> n]
VBoolean(b) == [t |-> "Boolean", v |-> b]
VArray(a) == [t |-> "Array", v |-> a]
\* a map is represented by the sequence of its entries (only its size is ever read)
VObject(o) == [t |-> "Object", v |-> o]

StateVariable(name, value) == [name |-> name, value |-> value]

Label(text) == [k |-> "Label", text |-> text]
Button(label, action) == [k |-> "Button", label |-> label, action |-> action]
TextField(placeholder, bind_to) ==
    [k |-> "TextField", placeholder |-> placeholder, bind_to |-> bind_to]
Image(source) == [k |-> "Image", source |-> source]
List(items, bind_to) == [k |-> "List", items |-> items, bind_to |-> bind_to]

Navigation(target) == [k |-> "Navigation", target |-> target]
UpdateState(variable, value) == [k |-> "UpdateState", variable |-> variable, value |-> value]
CallFunction(function, args) == [k |-> "CallFunction", function |-> function, args |-> args]
\* else_ is an Option<Box<Action>>
If(condition, then, else_) ==
    [k |-> "If", condition |-> condition, then |-> then, else_ |-> else_]
Loop(variable, range, body) ==
    [k |-> "Loop", variable |-> variable, range |-> range, body |-> body]

Screen(name, state, ui) == [name |-> name, state |-> state, ui |-> ui]
App(name, start_screen, screens, state) ==
    [name |-> name, start_screen |-> start_screen, screens |-> screens, state |-> state]

App_MAX_NAME_LENGTH == 100
App_MAX_SCREENS == 50
App_MAX_STATE_VARS == 200
App_MAX_UI_ELEMENTS_PER_SCREEN == 100
Screen_MAX_NAME_LENGTH == 50
Screen_MAX_STATE_VARS == 20
StateVariable_MAX_NAME_LENGTH == 50
StateVariable_MAX_STRING_LENGTH == 1000

\* the first error of a sequence of checks, as `?` in a for loop returns it
FirstErr(results) ==
    LET bad == {i \in 1..Len(results) : results[i] # Ok}
    IN  IF bad = {} THEN Ok ELSE results[SetMin(bad)]

\* the first error of a chain of (condition, message) early returns
FirstHit(checks) ==
    LET bad == {i \in 1..Len(checks) : checks[i][1]}
    IN  IF bad = {} THEN Ok ELSE Err(checks[SetMin(bad)][2])

StateVariable_validate(sv) ==
    FirstHit(<<
        <<Len(sv.name) > StateVariable_MAX_NAME_LENGTH,
          "State variable name exceeds maximum length">>,
        <<Dangerous(sv.name), "State variable name contains dangerous patterns">>,
        <<sv.value.t = "String" /\ Len(sv.value.v) > StateVariable_MAX_STRING_LENGTH,
          "String value too long">>,
        <<sv.value.t = "String"
            /\ (contains(sv.value.v, T_eval_call) \/ contains(sv.value.v, T_exec_call)),
          "String value contains dangerous function calls">>,
        <<sv.value.t = "Array" /\ Len(sv.value.v) > 100, "Array too large">>,
        <<sv.value.t = "Object" /\ Len(sv.value.v) > 50, "Object too large">> >>)

RECURSIVE Action_validate(_)
Action_validate(a) ==
    CASE a.k = "Navigation" ->
            FirstHit(<< <<Len(a.target) > 50, "Navigation target too long">> >>)
      [] a.k = "UpdateState" ->
            FirstHit(<< <<Len(a.variable) > 50, "State variable name too long">>,
                        <<Len(a.value) > 500, "State value too long">> >>)
      [] a.k = "CallFunction" ->
            FirstHit(<< <<Dangerous(a.function), "Dangerous function call detected">>,
                        <<Len(a.function) > 50, "Function name too long">>,
                        <<Len(a.args) > 10, "Too many arguments">>,
                        <<\E i \in 1..Len(a.args) : Len(a.args[i]) > 200,
                          "Argument too long">> >>)
      [] a.k = "If" ->
            LET own == FirstHit(<< <<Len(a.condition) > 200, "Condition too long">>,
                                   <<Dangerous(a.condition),
                                     "Condition contains dangerous patterns">> >>)
            IN  IF own # Ok THEN own
                ELSE IF Action_validate(a.then) # Ok THEN Action_validate(a.then)
                ELSE IF a.else_ # None THEN Action_validate(a.else_[1])
                ELSE Ok
      [] a.k = "Loop" ->
            LET own == FirstHit(<< <<Len(a.variable) > 50, "Loop variable name too long">>,
                                   <<Len(a.range) > 100, "Loop range too long">>,
                                   <<Len(a.body) > 100, "Loop body too large">> >>)
            IN  IF own # Ok THEN own
                ELSE FirstErr([i \in 1..Len(a.body) |-> Action_validate(a.body[i])])

UiElement_validate(u) ==
    CASE u.k = "Label" ->
            FirstHit(<< <<Len(u.text) > 1000, "Label text too long">>,
                        <<contains(u.text, T_script) \/ contains(u.text, T_javascript),
                          "Label text contains dangerous patterns">> >>)
      [] u.k = "Button" ->
            IF Len(u.label) > 50 THEN Err("Button label too long")
            ELSE Action_validate(u.action)
      [] u.k = "TextField" ->
            FirstHit(<< <<Len(u.placeholder) > 200, "Placeholder too long">>,
                        <<Len(u.bind_to) > 50, "Binding variable name too long">> >>)
      [] u.k = "Image" ->
            FirstHit(<< <<Len(u.source) > 500, "Image source URL too long">>,
                        <<starts_with(u.source, T_http)
                            /\ ~starts_with(u.source, T_http_localhost),
                          "Insecure HTTP connection not allowed">> >>)
      [] u.k = "List" ->
            FirstHit(<< <<Len(u.items) > 100, "List too large">>,
                        <<Len(u.bind_to) > 50, "Binding variable name too long">> >>)

Screen_validate(s) ==
    LET own == FirstHit(<<
            <<Len(s.name) > Screen_MAX_NAME_LENGTH, "Screen name exceeds maximum length">>,
            <<Dangerous(s.name), "Screen name contains dangerous patterns">>,
            <<Len(s.state) > Screen_MAX_STATE_VARS, "Too many state variables in screen">> >>)
        vars_ == FirstErr([i \in 1..Len(s.state) |-> StateVariable_validate(s.state[i])])
    IN  IF own # Ok THEN own
        ELSE IF vars_ # Ok THEN vars_
        ELSE IF Len(s.ui) > App_MAX_UI_ELEMENTS_PER_SCREEN
             THEN Err("Too many UI elements in screen")
        ELSE FirstErr([i \in 1..Len(s.ui) |-> UiElement_validate(s.ui[i])])

RECURSIVE SumLen(_, _)
SumLen(screens, i) ==
    IF i > Len(screens) THEN 0 ELSE Len(screens[i].state) + SumLen(screens, i + 1)

App_validate(app) ==
    LET own == FirstHit(<<
            <<Len(app.name) > App_MAX_NAME_LENGTH, "App name exceeds maximum length">>,
            <<Dangerous(app.name), "App name contains dangerous patterns">>,
            <<Len(app.screens) > App_MAX_SCREENS, "Too many screens">> >>)
        scr == FirstErr([i \in 1..Len(app.screens) |-> Screen_validate(app.screens[i])])
    IN  IF own # Ok THEN own
        ELSE IF scr # Ok THEN scr
        ELSE IF Len(app.state) + SumLen(app.screens, 1) > App_MAX_STATE_VARS
             THEN Err("Too many state variables")
        ELSE Ok

---------------------------------------------------------------------------
(* runtime.rs: WasmRuntime *)

MAX_EVENTS == 1000
MAX_LOOP_ITERATIONS == 100
DEFAULT_MAX_EXECUTION_SECS == 10
DEFAULT_MAX_MEMORY == 1048576

RuntimeOptions(max_execution_time, max_memory) ==
    [max_execution_time |-> max_execution_time, max_memory |-> max_memory]
RuntimeOptions_default == RuntimeOptions(DEFAULT_MAX_EXECUTION_SECS, DEFAULT_MAX_MEMORY)

ScreenLoaded(name) == [e |-> "ScreenLoaded", name |-> name]
StateUpdated(name, value) == [e |-> "StateUpdated", name |-> name, value |-> value]
ActionExecuted(action) == [e |-> "ActionExecuted", action |-> action]
ErrorEvent(msg) == [e |-> "Error", msg |-> msg]

(* The runtime record threaded through the operators below holds the fields
   of WasmRuntime (state, options, memory_usage, execution_log), the pending
   outcome of the call in progress (err: the anyhow error that `?` is
   propagating, panicked: an unwinding panic) and five observation fields
   that the code does not have: g_iters, the body runs of the Loop action in
   progress, g_loops, the body-run count of every finished Loop action,
   g_starts, the value of memory_usage at the start of each UI element of
   the screen, g_failure, the fields of the runtime as they were when
   the error arose, and g_offered, every event handed to log_event since the
   log was last cleared. *)
WasmRuntime_new(options) ==
    [state |-> <<>>, options |-> options, memory_usage |-> 0, execution_log |-> <<>>,
     err |-> None, panicked |-> FALSE, g_iters |-> 0, g_loops |-> <<>>, g_starts |-> <<>>,
     g_failure |-> None, g_offered |-> <<>>]

\* what the runtime holds at this moment
Snapshot(rt) ==
    [state |-> rt.state, memory_usage |-> rt.memory_usage,
     execution_log |-> rt.execution_log, g_starts |-> rt.g_starts]

Failed(rt) == rt.err # None
Fail(rt, msg) ==
    [rt EXCEPT !.err = Some(msg),
               !.g_failure = IF rt.err = None THEN Some(Snapshot(rt)) ELSE @]
Panic(rt, msg) ==
    [rt EXCEPT !.err = Some(msg), !.panicked = TRUE,
               !.g_failure = IF rt.err = None THEN Some(Snapshot(rt)) ELSE @]

\* a log that makes room for a new event by evicting its oldest one
LogEvictingOldest(rt, event) ==
    IF Len(rt.execution_log) < MAX_EVENTS
    THEN [rt EXCEPT !.execution_log = Append(@, event), !.g_offered = Append(@, event)]
    ELSE [rt EXCEPT !.execution_log = Append(Tail(@), event), !.g_offered = Append(@, event)]

log_event(rt, event) ==
    IF Len(rt.execution_log) < MAX_EVENTS
    THEN [rt EXCEPT !.execution_log = Append(@, event), !.g_offered = Append(@, event)]
    ELSE [rt EXCEPT !.g_offered = Append(@, event)]

track_memory_usage(rt, bytes) ==
    LET r1 == [rt EXCEPT !.memory_usage = @ + bytes]
    IN  IF r1.memory_usage > r1.options.max_memory
        THEN log_event(r1, ErrorEvent("Memory limit exceeded"))
        ELSE r1

\* HashMap::insert
Insert(m, key, value) ==
    [x \in (DOMAIN m) \cup {key} |-> IF x = key THEN value ELSE m[x]]

\* a write to the state store that validates neither the name nor the value
WriteUnvalidated(rt, name, value) ==
    log_event([rt EXCEPT !.state = Insert(@, name, value)], StateUpdated(name, value))

update_state(rt, name, value) ==
    IF Len(name) > 50 THEN Fail(rt, "State variable name too long")
    ELSE IF Dangerous(name) THEN Fail(rt, "Dangerous variable name")
    ELSE IF value.t = "String" /\ Len(value.v) > 1000 THEN Fail(rt, "String value too long")
    ELSE IF value.t = "Array" /\ Len(value.v) > 100 THEN Fail(rt, "Array too large")
    ELSE IF value.t = "Object" /\ Len(value.v) > 50 THEN Fail(rt, "Object too large")
    ELSE LET r1 == CASE value.t = "String" -> track_memory_usage(rt, Len(value.v))
                     [] value.t = "Array" -> track_memory_usage(rt, Len(value.v) * 8)
                     [] OTHER -> rt
             r2 == [r1 EXCEPT !.state = Insert(@, name, value)]
         IN  log_event(r2, StateUpdated(name, value))

\* Result<ValueType>: r is "Ok", "Err" or "Panic"
evaluate_expression(rt, expression) ==
    LET trimmed == trim(expression)
    IN  IF Dangerous(expression)
        THEN [r |-> "Err", msg |-> "Dangerous expression detected"]
        ELSE IF trimmed = T_true THEN [r |-> "Ok", v |-> VBoolean(TRUE)]
        ELSE IF trimmed = T_false THEN [r |-> "Ok", v |-> VBoolean(FALSE)]
        ELSE IF parse_i64(trimmed) # None
             THEN [r |-> "Ok", v |-> VNumber(parse_i64(trimmed)[1])]
        ELSE IF starts_with(trimmed, T_quote) /\ ends_with(trimmed, T_quote)
             THEN IF Len(trimmed) < 2
                  THEN [r |-> "Panic", msg |-> "slice index starts at 1 but ends at 0"]
                  ELSE [r |-> "Ok", v |-> VString(SubSeq(trimmed, 2, Len(trimmed) - 1))]
        ELSE IF trimmed \in DOMAIN rt.state THEN [r |-> "Ok", v |-> rt.state[trimmed]]
        ELSE [r |-> "Ok", v |-> VString(trimmed)]

\* Result<bool>
evaluate_condition(rt, condition) ==
    LET trimmed == trim(condition)
        pos     == find(trimmed, T_eqeq)
        left    == trim(SubSeq(trimmed, 1, pos - 1))
        right   == trim(SubSeq(trimmed, pos + 2, Len(trimmed)))
        quoted(x) == starts_with(x, T_quote) /\ ends_with(x, T_quote)
    IN  IF Dangerous(condition)
        THEN [r |-> "Err", msg |-> "Dangerous condition detected"]
        ELSE IF trimmed = T_true THEN [r |-> "Ok", v |-> TRUE]
        ELSE IF trimmed = T_false THEN [r |-> "Ok", v |-> FALSE]
        ELSE IF pos # 0 /\ parse_i64(left) # None /\ parse_i64(right) # None
             THEN [r |-> "Ok", v |-> (parse_i64(left)[1] = parse_i64(right)[1])]
        ELSE IF pos # 0 /\ quoted(left) /\ quoted(right)
             THEN IF Len(left) < 2 \/ Len(right) < 2
                  THEN [r |-> "Panic", msg |-> "slice index starts at 1 but ends at 0"]
                  ELSE [r |-> "Ok", v |-> (SubSeq(left, 2, Len(left) - 1)
                                             = SubSeq(right, 2, Len(right) - 1))]
        ELSE [r |-> "Ok", v |-> FALSE]

\* str::split(pat).collect()
RECURSIVE Split(_, _)
Split(s, p) ==
    LET i == find(s, p)
    IN  IF i = 0 THEN <<s>>
        ELSE <<SubSeq(s, 1, i - 1)>> \o Split(SubSeq(s, i + Len(p), Len(s)), p)

\* filter_map over Options
RECURSIVE Flatten(_)
Flatten(opts) == IF opts = <<>> THEN <<>> ELSE Head(opts) \o Flatten(Tail(opts))

\* range.split("..").filter_map(|s| s.trim().parse().ok()).collect::<Vec<i64>>()
range_values(range) ==
    LET parts == Split(range, T_dotdot)
    IN  Flatten([i \in 1..Len(parts) |-> parse_i64(trim(parts[i]))])

(* The bounds of the Loop's `for`: start and start + max_iterations, with the
   i64 arithmetic of lines 224-228.  ovf: one of the three operations left
   the i64 range (a panic with overflow checks, a wrap without). *)
LoopBounds(v) ==
    LET start == Min(v[1], v[2])
        end   == Max(v[1], v[2])
        diff  == end - start
        plus1 == Wrap(diff) + 1
        \* (..).min(100) as usize, and back `as i64`: the same bit pattern
        max_iterations == Min(Wrap(plus1), MAX_LOOP_ITERATIONS)
        upper == start + max_iterations
    IN  [start |-> start,
         upper |-> Wrap(upper),
         ovf   |-> ~InI64(diff) \/ ~InI64(plus1) \/ ~InI64(upper)]

\* a Navigation action that records its target in the state store
NavigationStoresTarget(rt, target) ==
    IF Len(target) > 50 THEN Fail(rt, "Navigation target too long")
    ELSE update_state(rt, <<"s", "c", "r", "e", "e", "n">>, VString(target))

\* Action::Navigation { target } => { .. }
NavigationArm(rt, target) ==
    IF Len(target) > 50 THEN Fail(rt, "Navigation target too long")
    ELSE rt

RECURSIVE execute_action(_, _), LoopIters(_, _, _, _), ExecBody(_, _, _, _), LoopArm(_, _)

\* the actions body[lo..hi] of a loop body, in order, stopping at the first error
ExecBody(rt, body, lo, hi) ==
    CASE lo > hi \/ Failed(rt) -> rt
      [] lo = hi /\ ~Failed(rt) -> execute_action(rt, body[lo])
      [] OTHER -> CHOOSE out \in { ExecBody(r, body, (lo + hi) \div 2 + 1, hi) :
                                     r \in {ExecBody(rt, body, lo, (lo + hi) \div 2)} } : TRUE

\* the iterations i = lo..hi of `for i in start..upper`, stopping at the first error
LoopIters(rt, a, lo, hi) ==
    CASE lo > hi \/ Failed(rt) -> rt
      [] lo = hi /\ ~Failed(rt) ->
            CHOOSE out \in { IF Failed(r1) THEN r1
                             ELSE ExecBody([r1 EXCEPT !.g_iters = @ + 1], a.body, 1, Len(a.body)) :
                               r1 \in {update_state(rt, a.variable, VNumber(lo))} } : TRUE
      [] OTHER -> CHOOSE out \in { LoopIters(r, a, (lo + hi) \div 2 + 1, hi) :
                                     r \in {LoopIters(rt, a, lo, (lo + hi) \div 2)} } : TRUE

\* for i in start..(start + max_iterations as i64) { .. }, with the checks before it
LoopArm(r0, action) ==
    CASE Len(action.body) > 100 -> Fail(r0, "Loop body too large")
      [] Len(action.body) <= 100 /\ Len(range_values(action.range)) # 2 ->
            Fail(r0, "Invalid range format")
      [] Len(action.body) <= 100 /\ Len(range_values(action.range)) = 2
           /\ LoopBounds(range_values(action.range)).ovf /\ overflow_checks ->
            Panic(r0, "attempt to add or subtract with overflow")
      [] OTHER ->
            CHOOSE out \in { [r1 EXCEPT !.g_loops = Append(@, r1.g_iters),
                                        !.g_iters = r0.g_iters] :
                r1 \in {LoopIters([r0 EXCEPT !.g_iters = 0], action,
                                  LoopBounds(range_values(action.range)).start,
                                  LoopBounds(range_values(action.range)).upper - 1)} } : TRUE

execute_action(rt, action) ==
    CHOOSE out \in {
        CASE action.k = "Navigation" -> NavigationArm(r0, action.target)
          [] action.k = "UpdateState" ->
                Only([ev \in {evaluate_expression(r0, action.value)} |->
                    IF ev.r = "Err" THEN Fail(r0, ev.msg)
                    ELSE IF ev.r = "Panic" THEN Panic(r0, ev.msg)
                    ELSE update_state(r0, action.variable, ev.v)])
          [] action.k = "CallFunction" ->
                LET evs == [i \in 1..Len(action.args) |->
                               evaluate_expression(r0, action.args[i])]
                    bad == {i \in 1..Len(action.args) : evs[i].r # "Ok"}
                IN  IF Dangerous(action.function)
                    THEN Fail(r0, "Dangerous function call detected")
                    ELSE IF Len(action.args) > 10 THEN Fail(r0, "Too many arguments")
                    ELSE IF bad = {} THEN r0
                    ELSE IF evs[SetMin(bad)].r = "Panic"
                         THEN Panic(r0, evs[SetMin(bad)].msg)
                         ELSE Fail(r0, evs[SetMin(bad)].msg)
          [] action.k = "If" ->
                LET c == evaluate_condition(r0, action.condition)
                IN  IF c.r = "Err" THEN Fail(r0, c.msg)
                    ELSE IF c.r = "Panic" THEN Panic(r0, c.msg)
                    ELSE IF c.v THEN execute_action(r0, action.then)
                    ELSE IF action.else_ # None THEN execute_action(r0, action.else_[1])
                    ELSE r0
          [] action.k = "Loop" -> LoopArm(r0, action)
        : r0 \in {log_event(rt, ActionExecuted(action))} } : TRUE

\* for state_var in vars[lo..hi] { self.update_state(..)?; }
RECURSIVE SeedState(_, _, _, _)
SeedState(rt, decls, lo, hi) ==
    IF lo > hi \/ Failed(rt) THEN rt
    ELSE IF lo = hi THEN update_state(rt, decls[lo].name, decls[lo].value)
    ELSE Only([r \in {SeedState(rt, decls, lo, (lo + hi) \div 2)} |->
               SeedState(r, decls, (lo + hi) \div 2 + 1, hi)])

\* for item in items[lo..hi] { self.track_memory_usage(item.len()); }
RECURSIVE TrackItems(_, _, _, _)
TrackItems(rt, items, lo, hi) ==
    IF lo > hi THEN rt
    ELSE IF lo = hi THEN track_memory_usage(rt, Len(items[lo]))
    ELSE Only([r \in {TrackItems(rt, items, lo, (lo + hi) \div 2)} |->
               TrackItems(r, items, (lo + hi) \div 2 + 1, hi)])

execute_ui_element(rt, u) ==
    CASE u.k = "Label" ->
            Only([ev \in {evaluate_expression(rt, u.text)} |->
                IF ev.r = "Err" THEN Fail(rt, ev.msg)
                ELSE IF ev.r = "Panic" THEN Panic(rt, ev.msg)
                ELSE track_memory_usage(rt, Len(u.text))])
      [] u.k = "Button" ->
            Only([valid \in {Action_validate(u.action)} |->
                IF valid # Ok THEN Fail(rt, valid[1])
                ELSE Only([r1 \in {execute_action(rt, u.action)} |->
                    IF Failed(r1) THEN r1
                    ELSE track_memory_usage(r1, Len(u.label) + 100)])])
      [] u.k = "TextField" ->
            Only([r1 \in {track_memory_usage(rt, Len(u.placeholder))} |->
                IF u.bind_to \notin DOMAIN r1.state
                THEN update_state(r1, u.bind_to, VString(<<>>))
                ELSE r1])
      [] u.k = "Image" ->
            IF starts_with(u.source, T_http) /\ ~starts_with(u.source, T_http_localhost)
            THEN Fail(rt, "Insecure HTTP connection not allowed")
            ELSE track_memory_usage(rt, Len(u.source) + 1024)
      [] u.k = "List" ->
            Only([r1 \in {TrackItems(rt, u.items, 1, Len(u.items))} |->
                IF u.bind_to \notin DOMAIN r1.state
                THEN update_state(r1, u.bind_to, VArray(<<>>))
                ELSE r1])

\* a loop over the UI elements that goes on after an element has failed
RECURSIVE ExecUiIgnoringErrors(_, _, _, _)
ExecUiIgnoringErrors(rt, ui, lo, hi) ==
    IF lo > hi THEN rt
    ELSE IF lo = hi
         THEN execute_ui_element([rt EXCEPT !.g_starts = Append(@, rt.memory_usage)], ui[lo])
    ELSE Only([r \in {ExecUiIgnoringErrors(rt, ui, lo, (lo + hi) \div 2)} |->
               ExecUiIgnoringErrors(r, ui, (lo + hi) \div 2 + 1, hi)])

\* for ui_element in ui[lo..hi] { self.execute_ui_element(ui_element)?; }
RECURSIVE ExecUi(_, _, _, _)
ExecUi(rt, ui, lo, hi) ==
    IF lo > hi \/ Failed(rt) THEN rt
    ELSE IF lo = hi
         THEN execute_ui_element([rt EXCEPT !.g_starts = Append(@, rt.memory_usage)], ui[lo])
    ELSE Only([r \in {ExecUi(rt, ui, lo, (lo + hi) \div 2)} |->
               ExecUi(r, ui, (lo + hi) \div 2 + 1, hi)])

execute_screen(rt, screen) ==
    Only([r0 \in {log_event(rt, ScreenLoaded(screen.name))} |->
        Only([r1 \in {SeedState(r0, screen.state, 1, Len(screen.state))} |->
            IF Failed(r1) THEN r1
            ELSE ExecUi(r1, screen.ui, 1, Len(screen.ui))])])

\* a reset that empties the state store as well
ResetClearingState(rt) ==
    [rt EXCEPT !.state = <<>>, !.memory_usage = 0, !.execution_log = <<>>,
               !.err = None, !.g_iters = 0, !.g_loops = <<>>, !.g_starts = <<>>,
               !.g_failure = None, !.g_offered = <<>>]

\* Security: Reset execution state (the clock, the counter and the log; the
\* state store is not touched), and no error is pending in the new call
ResetForExecute(rt) ==
    [rt EXCEPT !.memory_usage = 0, !.execution_log = <<>>,
               !.err = None, !.g_iters = 0, !.g_loops = <<>>, !.g_starts = <<>>,
               !.g_failure = None, !.g_offered = <<>>]

\* the runtime at the return of execute(app, start_screen); elapsed is what
\* execution_start.elapsed() reads, in seconds
execute_run(rt, app, start_screen, elapsed) ==
    LET r0 == ResetForExecute(rt)
        found == {i \in 1..Len(app.screens) : app.screens[i].name = start_screen}
        screen == app.screens[SetMin(found)]
    IN  IF App_validate(app) # Ok THEN Fail(r0, "App validation failed")
        ELSE Only([r1 \in {SeedState(r0, app.state, 1, Len(app.state))} |->
            IF Failed(r1) THEN r1
            ELSE IF found = {} THEN Fail(r1, "Start screen not found")
            ELSE IF Screen_validate(screen) # Ok THEN Fail(r1, "Screen validation failed")
            ELSE Only([r2 \in {execute_screen(r1, screen)} |->
                IF Failed(r2) THEN r2
                ELSE IF elapsed > r2.options.max_execution_time
                     THEN Fail(r2, "Execution timeout")
                ELSE IF r2.memory_usage > r2.options.max_memory
                     THEN Fail(r2, "Memory limit exceeded")
                ELSE r2])])

\* the value execute returns: Ok(ExecutionResult {..}), Err(anyhow error), or a panic
execute_result(rt, elapsed) ==
    IF rt.panicked THEN [kind |-> "Panic", error |-> rt.err[1]]
    ELSE IF Failed(rt) THEN [kind |-> "Err", error |-> rt.err[1]]
    ELSE [kind |-> "Ok",
          success |-> TRUE,
          final_state |-> rt.state,
          execution_time |-> elapsed,
          memory_usage |-> rt.memory_usage,
          events |-> rt.execution_log]

---------------------------------------------------------------------------
(* The programs and calls the interpreter is run on *)

N_Test == <<"T", "e", "s", "t">>
N_Home == <<"H", "o", "m", "e">>
N_Settings == <<"S", "e", "t", "t", "i", "n", "g", "s">>
N_count == <<"c", "o", "u", "n", "t">>
N_i == <<"i">>
N_x == <<"x">>
X_count_plus_1 == <<"c", "o", "u", "n", "t", " ", "+", " ", "1">>
X_5 == <<"5">>
X_hi == <<"\"", "h", "i", "\"">>
X_execute == <<"e", "x", "e", "c", "u", "t", "e">>
X_Hello == <<"H", "e", "l", "l", "o">>
X_abc == <<"a", "b", "c">>

RangeText(a, b) == IntStr(a) \o T_dotdot \o IntStr(b)

A_inc == UpdateState(N_count, X_count_plus_1)
A_set5 == UpdateState(N_count, X_5)
A_setx == UpdateState(N_x, X_hi)
\* passes Action::validate, fails in evaluate_expression
A_fail == UpdateState(N_x, X_execute)
A_nav == Navigation(N_Settings)
X_count_eq_0 == <<"c", "o", "u", "n", "t", " ", "=", "=", " ", "0">>
X_count_gt_0 == <<"c", "o", "u", "n", "t", " ", ">", " ", "0">>
X_5_eq_5 == <<"5", " ", "=", "=", " ", "5">>
\* a variable compared with a literal, two literals compared, no comparison
A_if_count_is_0 == If(X_count_eq_0, A_setx, Some(A_set5))
A_if_5_is_5 == If(X_5_eq_5, A_setx, None)
A_if_count_gt_0 == If(X_count_gt_0, A_setx, None)

CoreUiPool ==
    { Label(X_Hello),
      \* a text that is one double quote
      Label(T_quote),
      Button(X_abc, A_inc),
      Button(X_abc, A_set5),
      Button(X_abc, A_fail),
      Button(X_abc, A_nav),
      Button(X_abc, A_if_count_is_0),
      Button(X_abc, A_if_5_is_5),
      Button(X_abc, A_if_count_gt_0),
      Button(X_abc, Loop(N_i, RangeText(0, 2), <<A_setx>>)),
      Button(X_abc, Loop(N_i, RangeText(0, 2), <<A_set5, A_fail, A_setx>>)),
      TextField(X_abc, N_x) }

CoreUis ==
    {<<u>> : u \in CoreUiPool}
    \cup { <<Button(X_abc, A_set5), Button(X_abc, A_setx)>>,
           <<Button(X_abc, A_set5), Button(X_abc, A_fail)>>,
           <<Button(X_abc, A_fail), Button(X_abc, A_set5)>>,
           <<TextField(X_abc, N_x), Button(X_abc, A_setx)>> }

CoreApps ==
    { App(N_Test, N_Home, <<Screen(N_Home, <<>>, ui)>>, top) :
        ui \in CoreUis,
        top \in {<<>>, <<StateVariable(N_count, VNumber(0))>>} }
    \cup { App(N_Test, N_Home, <<>>, <<>>),
           \* top-level and screen-local state
           App(N_Test, N_Home,
               <<Screen(N_Home, <<StateVariable(N_x, VNumber(1))>>, <<Button(X_abc, A_set5)>>)>>,
               <<StateVariable(N_count, VNumber(0))>>) }

OptionChoices == {RuntimeOptions_default, RuntimeOptions(DEFAULT_MAX_EXECUTION_SECS, 100)}

\* calls of execute: every program from its screen and in time, one from a
\* screen it does not have, one that overruns max_execution_time
CoreCalls ==
    {<<app, N_Home, 0>> : app \in CoreApps}
    \cup { <<App(N_Test, N_Home, <<Screen(N_Home, <<>>, <<Button(X_abc, A_set5)>>)>>, <<>>),
             c[1], c[2]>> : c \in {<<N_Settings, 0>>, <<N_Home, DEFAULT_MAX_EXECUTION_SECS + 1>>} }

\* endpoints of loop ranges: the extremes of i64, values around 0, a width above the cap
LoopEndpoints == {MinInt, -1, 0, 3, 120, MaxInt}
LoopRanges ==
    {RangeText(a, b) : a \in LoopEndpoints, b \in LoopEndpoints}
    \cup {X_abc, RangeText(1, 2) \o T_dotdot \o IntStr(3)}
LoopApps ==
    { App(N_Test, N_Home,
          <<Screen(N_Home, <<>>, <<Button(X_abc, Loop(N_i, r, body))>>)>>, <<>>) :
        r \in LoopRanges, body \in {<<>>, <<A_set5>>, <<A_set5, A_fail>>} }

\* names, texts and collections at and just above the ceilings of update_state
NameOfLen(n) == [i \in 1..n |-> "n"]
TextOfLen(n) == [i \in 1..n |-> "a"]
ItemsOfLen(n) == [i \in 1..n |-> VNumber(0)]
N_executor == <<"e", "x", "e", "c", "u", "t", "o", "r">>
N_evaluated == <<"e", "v", "a", "l", "u", "a", "t", "e", "d">>
\* a string value that holds the text of a call of eval
X_eval_call == <<"e", "v", "a", "l", "(", "1", ")">>

\* top-level declarations, which App::validate does not look into
StoreDecls ==
    { <<StateVariable(NameOfLen(50), VString(TextOfLen(1000))),
        StateVariable(N_x, VArray(ItemsOfLen(100))),
        StateVariable(N_count, VObject(ItemsOfLen(50)))>>,
      <<StateVariable(NameOfLen(51), VNumber(0))>>,
      <<StateVariable(N_executor, VNumber(0))>>,
      <<StateVariable(N_evaluated, VNumber(0))>>,
      <<StateVariable(N_x, VString(TextOfLen(1001)))>>,
      <<StateVariable(N_x, VString(X_eval_call))>>,
      <<StateVariable(N_x, VArray(ItemsOfLen(101)))>>,
      <<StateVariable(N_x, VObject(ItemsOfLen(51)))>> }

\* one UI element for each of the other ways to the state store
StoreUis ==
    { <<Button(X_abc, UpdateState(N_executor, X_5))>>,
      <<Button(X_abc, UpdateState(N_x, X_hi))>>,
      <<Button(X_abc, Loop(N_executor, RangeText(0, 2), <<>>))>>,
      <<Button(X_abc, Loop(N_i, RangeText(0, 2), <<>>))>>,
      <<TextField(X_abc, N_evaluated)>>,
      <<TextField(X_abc, N_x)>>,
      <<List(<<X_abc>>, N_executor)>>,
      <<List(<<X_abc>>, N_count)>> }

\* calls of execute that write to the state store through seeding, the
\* screen's own state, update-state, a loop variable and the two bindings
StoreCalls ==
    {<<App(N_Test, N_Home, <<Screen(N_Home, <<>>, <<>>)>>, top), N_Home, 0>> : top \in StoreDecls}
    \cup {<<App(N_Test, N_Home, <<Screen(N_Home, <<>>, ui)>>, <<>>), N_Home, 0>> : ui \in StoreUis}
    \* a call that fails after seeding count = 0, its start screen not being there
    \cup {<<App(N_Test, N_Home, <<Screen(N_Home, <<>>, <<>>)>>,
                <<StateVariable(N_count, VNumber(0))>>), N_Settings, 0>>}
    \cup {<<App(N_Test, N_Home, <<Screen(N_Home, local, <<>>)>>, <<>>), N_Home, 0>> :
             local \in { <<StateVariable(N_i, VString(TextOfLen(1001)))>>,
                         <<StateVariable(N_i, VString(X_eval_call))>>,
                         <<StateVariable(N_i, VString(X_abc))>> }}

\* calls of functions: two names of the analyzer's denylist, one of the
\* runtime's, one of neither; the argument of one double quote cannot be
\* evaluated without a panic
F_system == <<"s", "y", "s", "t", "e", "m">>
F_fetch == <<"f", "e", "t", "c", "h">>
ActionPool ==
    { CallFunction(F_system, <<X_5>>),
      CallFunction(F_system, <<T_quote>>),
      CallFunction(F_fetch, <<X_5>>),
      CallFunction(X_execute, <<T_quote>>),
      CallFunction(X_abc, <<X_5>>),
      Navigation(N_Settings),
      Navigation(NameOfLen(50)),
      Navigation(NameOfLen(51)),
      \* 100 iterations of 11 events each
      Loop(N_i, RangeText(0, 99), <<A_setx, A_setx, A_setx, A_setx, A_setx>>) }

\* calls of execute on one button for each action of the pool
ActionCalls ==
    {<<App(N_Test, N_Home, <<Screen(N_Home, <<>>, <<Button(X_abc, a)>>)>>, <<>>), N_Home, 0>> :
        a \in ActionPool}

---------------------------------------------------------------------------
(* Specifications *)

NoCall == [via |-> "none"]
NoResult == [kind |-> "None"]
CompileIdle == [op |-> "none"]
AnalyzeIdle == [op |-> "none"]

\* WasmRuntime::new(options), nothing executed yet
Init ==
    /\ runtime \in {WasmRuntime_new(o) : o \in OptionChoices}
    /\ result = NoResult
    /\ call = NoCall
    /\ runs = 0
    /\ overflow_checks \in BOOLEAN
    /\ creq = CompileIdle
    /\ cres = CompileIdle
    /\ areq = AnalyzeIdle
    /\ ares = AnalyzeIdle

\* runtime.execute(app, start_screen) on the long-lived instance
Execute(app, start_screen, elapsed) ==
    /\ runs < MaxRuns
    /\ ~runtime.panicked
    /\ \E done \in {execute_run(runtime, app, start_screen, elapsed)} :
          /\ runtime' = done
          /\ result' = execute_result(done, elapsed)
          /\ call' = [via |-> "execute", app |-> app, start_screen |-> start_screen,
                      elapsed |-> elapsed, before |-> runtime, at_return |-> done]
    /\ runs' = runs + 1
    /\ UNCHANGED <<overflow_checks, creq, cres, areq, ares>>

Next ==
    \E c \in CoreCalls : Execute(c[1], c[2], c[3])

Spec == Init /\ [][Next]_vars

\* the long-lived runtime under the calls that write to the state store
NextStore ==
    \E c \in StoreCalls : Execute(c[1], c[2], c[3])

SpecStore == Init /\ [][NextStore]_vars

\* the long-lived runtime under the calls that run one action each
NextActions ==
    \E c \in ActionCalls : Execute(c[1], c[2], c[3])

SpecActions == Init /\ [][NextActions]_vars

\* a screen whose run under max_memory = 100 leaves 999 events in the log: nine
\* buttons of 102 events each and one of 80, after the ScreenLoaded event
NearCapScreen ==
    Screen(N_Home, <<>>,
           [b \in 1..10 |-> Button(X_abc, Loop(N_i, RangeText(1, IF b < 10 THEN 100 ELSE 78), <<>>))])

\* the runtimes update_state is called on: new ones, and one whose log is one
\* event below its cap and whose memory counter is above max_memory
UpdateRuntimes ==
    {WasmRuntime_new(o) : o \in OptionChoices}
    \cup {execute_screen(WasmRuntime_new(RuntimeOptions(DEFAULT_MAX_EXECUTION_SECS, 100)),
                         NearCapScreen)}

MaxUpdates == 2
UpdateNames == {N_x, N_count, NameOfLen(50), NameOfLen(51), N_executor, N_evaluated}
UpdateValues ==
    {VNumber(0), VBoolean(TRUE), VString(<<"h", "i">>),
     VString(TextOfLen(1000)), VString(TextOfLen(1001)),
     VArray(ItemsOfLen(100)), VArray(ItemsOfLen(101)),
     VObject(ItemsOfLen(50)), VObject(ItemsOfLen(51))}

InitUpdate ==
    /\ runtime \in UpdateRuntimes
    /\ result = NoResult
    /\ call = NoCall
    /\ runs = 0
    /\ overflow_checks = FALSE
    /\ creq = CompileIdle
    /\ cres = CompileIdle
    /\ areq = AnalyzeIdle
    /\ ares = AnalyzeIdle

\* self.update_state(name, value) in the course of an execution; its error
\* ends the execution, so no update follows a rejected one
UpdateStateCall(name, value) ==
    /\ runs < MaxUpdates
    /\ ~Failed(runtime)
    /\ \E done \in {update_state(runtime, name, value)} :
          /\ runtime' = done
          /\ result' = IF Failed(done) THEN [kind |-> "Err", error |-> done.err[1]]
                       ELSE [kind |-> "Ok"]
          /\ call' = [via |-> "update_state", name |-> name, value |-> value,
                      before |-> runtime, at_return |-> done]
    /\ runs' = runs + 1
    /\ UNCHANGED <<overflow_checks, creq, cres, areq, ares>>

NextUpdate ==
    \E name \in UpdateNames, value \in UpdateValues : UpdateStateCall(name, value)

SpecUpdate == InitUpdate /\ [][NextUpdate]_vars

\* a call of execute_sprout_app(app, start_screen, options) about to be made
Pending(app, start_screen, options, elapsed) ==
    [via |-> "pending", app |-> app, start_screen |-> start_screen,
     options |-> options, elapsed |-> elapsed]

\* execute_sprout_app: a runtime of its own, dropped at return
ExecuteSproutApp ==
    /\ call.via = "pending"
    /\ \E fresh \in {WasmRuntime_new(call.options)} :
       \E done \in {execute_run(fresh, call.app, call.start_screen, call.elapsed)} :
          /\ result' = execute_result(done, call.elapsed)
          /\ call' = [via |-> "execute_sprout_app", app |-> call.app,
                      start_screen |-> call.start_screen, elapsed |-> call.elapsed,
                      before |-> fresh, at_return |-> done]
    /\ UNCHANGED <<runtime, runs, overflow_checks, creq, cres, areq, ares>>

\* one-shot runs of programs made of a single Loop action
InitLoop ==
    /\ runtime = WasmRuntime_new(RuntimeOptions_default)
    /\ result = NoResult
    /\ call \in {Pending(app, N_Home, RuntimeOptions_default, 0) : app \in LoopApps}
    /\ runs = 0
    /\ overflow_checks \in BOOLEAN
    /\ creq = CompileIdle
    /\ cres = CompileIdle
    /\ areq = AnalyzeIdle
    /\ ares = AnalyzeIdle

NextLoop == ExecuteSproutApp

SpecLoop == InitLoop /\ [][NextLoop]_vars

\* actions nested in If branches and Loop bodies
MaxActionDepth == 14
MaxLoopDepth == 8
ActionShapes == {"Then", "Else", "Body", "Mixed"}

\* the action x = "hi" under d nested actions of one kind (or of the three in turn)
RECURSIVE NestedAction(_, _)
NestedAction(shape, d) ==
    IF d = 0 THEN A_setx
    ELSE CASE shape = "Then" \/ (shape = "Mixed" /\ d % 3 = 0) ->
                If(T_true, NestedAction(shape, d - 1), None)
           [] shape = "Else" \/ (shape = "Mixed" /\ d % 3 = 1) ->
                If(T_false, A_set5, Some(NestedAction(shape, d - 1)))
           [] shape = "Body" \/ (shape = "Mixed" /\ d % 3 = 2) ->
                Loop(N_i, RangeText(0, 0), <<NestedAction(shape, d - 1)>>)

DeepApps ==
    { App(N_Test, N_Home,
          <<Screen(N_Home, <<>>, <<Button(X_abc, NestedAction(shape, d))>>)>>, <<>>) :
        shape \in ActionShapes, d \in 0..MaxActionDepth }
    \ { App(N_Test, N_Home,
            <<Screen(N_Home, <<>>, <<Button(X_abc, NestedAction("Body", d))>>)>>, <<>>) :
          d \in (MaxLoopDepth + 1)..MaxActionDepth }

\* one-shot runs of programs made of one nested action
InitDeep ==
    /\ runtime = WasmRuntime_new(RuntimeOptions_default)
    /\ result = NoResult
    /\ call \in {Pending(app, N_Home, RuntimeOptions_default, 0) : app \in DeepApps}
    /\ runs = 0
    /\ overflow_checks \in BOOLEAN
    /\ creq = CompileIdle
    /\ cres = CompileIdle
    /\ areq = AnalyzeIdle
    /\ ares = AnalyzeIdle

NextDeep == ExecuteSproutApp

SpecDeep == InitDeep /\ [][NextDeep]_vars

---------------------------------------------------------------------------
(* Words and marks of the source language *)

K_inf == <<"i", "n", "f">>
K_infinity == <<"i", "n", "f", "i", "n", "i", "t", "y">>
K_nan == <<"n", "a", "n">>
K_lbrace == <<"{">>
K_padded_lbrace == <<" ", "{", " ">>
K_rbrace == <<"}">>
K_padded_rbrace == <<" ", "}", " ">>
K_lparen == <<"(">>
K_padded_lparen == <<" ", "(", " ">>
K_rparen == <<")">>
K_padded_rparen == <<" ", ")", " ">>
K_arrow == <<"-", ">">>
K_padded_arrow == <<" ", "-", ">", " ">>
K_eq == <<"=">>
K_padded_eq == <<" ", "=", " ">>
K_colon == <<":">>
K_padded_colon == <<" ", ":", " ">>
K_comma == <<",">>
K_padded_comma == <<" ", ",", " ">>
K_app == <<"a", "p", "p">>
K_start == <<"s", "t", "a", "r", "t">>
K_import == <<"i", "m", "p", "o", "r", "t">>
K_from == <<"f", "r", "o", "m">>
K_EOF == <<"E", "O", "F">>
K_String == <<"S", "t", "r", "i", "n", "g">>
K_Int == <<"I", "n", "t">>
K_Float == <<"F", "l", "o", "a", "t">>
K_Boolean == <<"B", "o", "o", "l", "e", "a", "n">>
K_Date == <<"D", "a", "t", "e">>
K_data == <<"d", "a", "t", "a">>
K_state == <<"s", "t", "a", "t", "e">>
K_dollar == <<"$">>
K_space == <<" ">>
K_column == <<"c", "o", "l", "u", "m", "n">>
K_row == <<"r", "o", "w">>
K_stack == <<"s", "t", "a", "c", "k">>
K_label == <<"l", "a", "b", "e", "l">>
K_title == <<"t", "i", "t", "l", "e">>
K_button == <<"b", "u", "t", "t", "o", "n">>
K_image == <<"i", "m", "a", "g", "e">>
K_input == <<"i", "n", "p", "u", "t">>
K_binding == <<"b", "i", "n", "d", "i", "n", "g">>
K_list == <<"l", "i", "s", "t">>
K_if == <<"i", "f">>
K_else == <<"e", "l", "s", "e">>
K_on == <<"o", "n">>
K_screen == <<"s", "c", "r", "e", "e", "n">>
K_ui == <<"u", "i">>

---------------------------------------------------------------------------
(* Text operations of the standard library used by the compiler *)

UpperLetters ==
    <<"A", "B", "C", "D", "E", "F", "G", "H", "I", "J", "K", "L", "M",
      "N", "O", "P", "Q", "R", "S", "T", "U", "V", "W", "X", "Y", "Z">>
LowerLetters ==
    <<"a", "b", "c", "d", "e", "f", "g", "h", "i", "j", "k", "l", "m",
      "n", "o", "p", "q", "r", "s", "t", "u", "v", "w", "x", "y", "z">>
LowerChar(c) ==
    IF \E i \in 1..26 : UpperLetters[i] = c
    THEN LowerLetters[CHOOSE i \in 1..26 : UpperLetters[i] = c]
    ELSE c
UpperChar(c) ==
    IF \E i \in 1..26 : LowerLetters[i] = c
    THEN UpperLetters[CHOOSE i \in 1..26 : LowerLetters[i] = c]
    ELSE c
to_lowercase(s) == [i \in 1..Len(s) |-> LowerChar(s[i])]
to_uppercase(s) == [i \in 1..Len(s) |-> UpperChar(s[i])]

\* parts[lo] \o .. \o parts[hi]
RECURSIVE Concat(_, _, _)
Concat(parts, lo, hi) ==
    IF lo > hi THEN <<>>
    ELSE IF lo = hi THEN parts[lo]
    ELSE Concat(parts, lo, (lo + hi) \div 2) \o Concat(parts, (lo + hi) \div 2 + 1, hi)

\* the members of a set of integers in ascending order
Ascending(S) ==
    [k \in 1..Cardinality(S) |-> CHOOSE x \in S : Cardinality({y \in S : y < x}) = k - 1]

\* str::replace(from, to) for a pattern that cannot overlap itself, which holds
\* of every pattern the tokenizer replaces
replace(s, from, to) ==
    Only([starts \in {{i \in 1..(Len(s) - Len(from) + 1) : SubSeq(s, i, i + Len(from) - 1) = from}} |->
            Only([parts \in {[i \in 1..Len(s) |->
                    IF i \in starts THEN to
                    ELSE IF \E j \in starts : j < i /\ i < j + Len(from) THEN <<>>
                    ELSE <<s[i]>>]} |->
                  Concat(parts, 1, Len(parts))])])

\* str::split_whitespace().collect(): the maximal runs of non-whitespace
split_whitespace(s) ==
    Only([first \in {Ascending({i \in 1..Len(s) : ~IsWs(s[i]) /\ (i = 1 \/ IsWs(s[i - 1]))})} |->
            Only([last \in {Ascending({i \in 1..Len(s) : ~IsWs(s[i]) /\ (i = Len(s) \/ IsWs(s[i + 1]))})} |->
                  [k \in 1..Len(first) |-> SubSeq(s, first[k], last[k])]])])

\* str::parse::<f64>().is_ok(): sign, digits with at most one point, exponent;
\* or inf, infinity, nan in any case
IsF64(token) ==
    LET body   == IF token # <<>> /\ Head(token) \in {"+", "-"} THEN Tail(token) ELSE token
        epos   == {i \in 1..Len(body) : body[i] \in {"e", "E"}}
        mant   == IF epos = {} THEN body ELSE SubSeq(body, 1, SetMin(epos) - 1)
        expo   == IF epos = {} THEN <<>> ELSE SubSeq(body, SetMin(epos) + 1, Len(body))
        expd   == IF expo # <<>> /\ Head(expo) \in {"+", "-"} THEN Tail(expo) ELSE expo
        points == {i \in 1..Len(mant) : mant[i] = "."}
    IN  \/ to_lowercase(body) \in {K_inf, K_infinity, K_nan}
        \/ /\ \A i \in 1..Len(mant) : mant[i] \in Digit \cup {"."}
           /\ Cardinality(points) <= 1
           /\ \E i \in 1..Len(mant) : mant[i] \in Digit
           /\ epos # {} => (expd # <<>> /\ \A i \in 1..Len(expd) : expd[i] \in Digit)

---------------------------------------------------------------------------
(* parser.rs: the AST it builds, the tokenizer and the recursive-descent parser *)

App_new(name, start_screen) ==
    [name |-> name, start_screen |-> start_screen,
     imports |-> <<>>, data_models |-> <<>>, screens |-> <<>>]
Import(name, path) == [name |-> name, path |-> path]
DataField(name, type_name, default) ==
    [name |-> name, type_name |-> type_name, default |-> default]
DataModel(name, fields) == [name |-> name, fields |-> fields]
Parameter(name, type_name) == [name |-> name, type_name |-> type_name]
StateDecl_new(name, value) == [name |-> name, value |-> value]
ScreenDecl(name, parameters, state, ui, actions) ==
    [name |-> name, parameters |-> parameters, state |-> state, ui |-> ui,
     actions |-> actions]
ActionCode(code) == [code |-> code]
NavigationTo(screen, args) == [screen |-> screen, args |-> args]

Expr_Number(text) == [k |-> "Number", text |-> text]
Expr_String(s) == [k |-> "String", s |-> s]
Expr_Boolean(b) == [k |-> "Boolean", b |-> b]
Expr_Variable(name) == [k |-> "Variable", name |-> name]
Expr_FunctionCall(name, args) == [k |-> "FunctionCall", name |-> name, args |-> args]

UI_Column(children) == [k |-> "Column", children |-> children]
UI_Row(children) == [k |-> "Row", children |-> children]
UI_Stack(children) == [k |-> "Stack", children |-> children]
UI_Label(content) == [k |-> "Label", content |-> content]
UI_Title(content) == [k |-> "Title", content |-> content]
UI_Button(label, action, navigate) ==
    [k |-> "Button", label |-> label, action |-> action, navigate |-> navigate]
UI_Image(src) == [k |-> "Image", src |-> src]
UI_Input(label, binding) == [k |-> "Input", label |-> label, binding |-> binding]
UI_List(items, child) == [k |-> "List", items |-> items, child |-> child]
UI_Conditional(condition, then_branch, else_branch) ==
    [k |-> "Conditional", condition |-> condition, then_branch |-> then_branch,
     else_branch |-> else_branch]
UI_Binding(variable) == [k |-> "Binding", variable |-> variable]

IsContainer(ui) == ui.k \in {"Column", "Row", "Stack"}

\* ParseError
Unexpected(token) == [e |-> "Unexpected", token |-> token]
ExpectedIdent == [e |-> "ExpectedIdent"]
UnterminatedString == [e |-> "UnterminatedString"]
UndefinedReference(what) == [e |-> "UndefinedReference", what |-> what]
DuplicateDefinition(what) == [e |-> "DuplicateDefinition", what |-> what]

\* fn tokenize(source)
tokenize(source) ==
    Only([s1 \in {replace(source, K_lbrace, K_padded_lbrace)} |->
    Only([s2 \in {replace(s1, K_rbrace, K_padded_rbrace)} |->
    Only([s3 \in {replace(s2, K_lparen, K_padded_lparen)} |->
    Only([s4 \in {replace(s3, K_rparen, K_padded_rparen)} |->
    Only([s5 \in {replace(s4, K_arrow, K_padded_arrow)} |->
    Only([s6 \in {replace(s5, K_eq, K_padded_eq)} |->
    Only([s7 \in {replace(s6, K_colon, K_padded_colon)} |->
    Only([s8 \in {replace(s7, K_comma, K_padded_comma)} |->
        split_whitespace(s8)])])])])])])])])

(* A parsing step returns POk(value, position after the tokens it consumed),
   PErr(ParseError), PPanic (an unwinding panic) or PHang (a loop that never
   ends).  `let x = step?;` hands on a step that is not Ok. *)
POk(v, pos) == [r |-> "Ok", v |-> v, pos |-> pos]
PErr(err) == [r |-> "Err", err |-> err]
PPanic(msg) == [r |-> "Panic", msg |-> msg]
PHang == [r |-> "Hang"]
\* iter.peek() == Some(word)
PeekIs(toks, pos, word) == pos <= Len(toks) /\ toks[pos] = word
Quoted(token) == starts_with(token, T_quote) /\ ends_with(token, T_quote)

expect(toks, pos, expected) ==
    IF PeekIs(toks, pos, expected) THEN POk(<<>>, pos + 1)
    ELSE PErr(Unexpected(expected))

expect_ident(toks, pos) ==
    IF pos <= Len(toks) THEN POk(toks[pos], pos + 1) ELSE PErr(ExpectedIdent)

parse_string(toks, pos) ==
    IF pos > Len(toks) THEN PErr(UnterminatedString)
    ELSE IF ~Quoted(toks[pos]) THEN PErr(UnterminatedString)
    ELSE IF Len(toks[pos]) < 2 THEN PPanic("slice index starts at 1 but ends at 0")
    ELSE POk(SubSeq(toks[pos], 2, Len(toks[pos]) - 1), pos + 1)

parse_app(toks, pos) ==
    Only([a \in {expect(toks, pos, K_app)} |-> IF a.r # "Ok" THEN a ELSE
    Only([name \in {parse_string(toks, a.pos)} |-> IF name.r # "Ok" THEN name ELSE
    Only([b \in {expect(toks, name.pos, K_lbrace)} |-> IF b.r # "Ok" THEN b ELSE
    Only([c \in {expect(toks, b.pos, K_start)} |-> IF c.r # "Ok" THEN c ELSE
    Only([d \in {expect(toks, c.pos, K_eq)} |-> IF d.r # "Ok" THEN d ELSE
    Only([start_screen \in {expect_ident(toks, d.pos)} |-> IF start_screen.r # "Ok" THEN start_screen ELSE
    Only([e \in {expect(toks, start_screen.pos, K_rbrace)} |-> IF e.r # "Ok" THEN e ELSE
        POk(App_new(name.v, start_screen.v), e.pos)])])])])])])])

parse_import(toks, pos) ==
    Only([a \in {expect(toks, pos, K_import)} |-> IF a.r # "Ok" THEN a ELSE
    Only([name \in {parse_string(toks, a.pos)} |-> IF name.r # "Ok" THEN name ELSE
    Only([b \in {expect(toks, name.pos, K_from)} |-> IF b.r # "Ok" THEN b ELSE
    Only([path \in {parse_string(toks, b.pos)} |-> IF path.r # "Ok" THEN path ELSE
        POk(Import(name.v, path.v), path.pos)])])])])

RECURSIVE ImportsFrom(_, _, _)
ImportsFrom(toks, pos, imports) ==
    IF PeekIs(toks, pos, K_import)
    THEN Only([i \in {parse_import(toks, pos)} |-> IF i.r # "Ok" THEN i ELSE
             ImportsFrom(toks, i.pos, Append(imports, i.v))])
    ELSE POk(imports, pos)
parse_imports(toks, pos) == ImportsFrom(toks, pos, <<>>)

RECURSIVE parse_expr(_, _), ArgsFrom(_, _, _)
\* while iter.peek() != Some(")") { args.push(parse_expr(iter)?); skip a "," }
ArgsFrom(toks, pos, args) ==
    IF PeekIs(toks, pos, K_rparen) THEN POk(args, pos)
    ELSE Only([x \in {parse_expr(toks, pos)} |-> IF x.r # "Ok" THEN x ELSE
             ArgsFrom(toks, IF PeekIs(toks, x.pos, K_comma) THEN x.pos + 1 ELSE x.pos,
                      Append(args, x.v))])

parse_expr(toks, pos) ==
    IF pos > Len(toks) THEN PErr(Unexpected(K_EOF))
    ELSE IF IsF64(toks[pos]) THEN POk(Expr_Number(toks[pos]), pos + 1)
    ELSE IF Quoted(toks[pos])
         THEN IF Len(toks[pos]) < 2 THEN PPanic("slice index starts at 1 but ends at 0")
              ELSE POk(Expr_String(SubSeq(toks[pos], 2, Len(toks[pos]) - 1)), pos + 1)
    ELSE IF toks[pos] = T_true THEN POk(Expr_Boolean(TRUE), pos + 1)
    ELSE IF toks[pos] = T_false THEN POk(Expr_Boolean(FALSE), pos + 1)
    ELSE IF PeekIs(toks, pos + 1, K_lparen)
         THEN Only([args \in {ArgsFrom(toks, pos + 2, <<>>)} |-> IF args.r # "Ok" THEN args ELSE
                  \* expect(iter, ")") with its result dropped
                  POk(Expr_FunctionCall(toks[pos], args.v), args.pos + 1)])
    ELSE POk(Expr_Variable(toks[pos]), pos + 1)

parse_arg_list(toks, pos) ==
    Only([a \in {expect(toks, pos, K_lparen)} |-> IF a.r # "Ok" THEN a ELSE
    Only([args \in {ArgsFrom(toks, a.pos, <<>>)} |-> IF args.r # "Ok" THEN args ELSE
    Only([b \in {expect(toks, args.pos, K_rparen)} |-> IF b.r # "Ok" THEN b ELSE
        POk(args.v, b.pos)])])])

DataType(name) ==
    IF name \in {K_String, K_Int, K_Float, K_Boolean, K_Date}
    THEN [t |-> name]
    ELSE [t |-> "Custom", name |-> name]

parse_data_field(toks, pos) ==
    Only([name \in {expect_ident(toks, pos)} |-> IF name.r # "Ok" THEN name ELSE
    Only([a \in {expect(toks, name.pos, K_colon)} |-> IF a.r # "Ok" THEN a ELSE
    Only([ty \in {expect_ident(toks, a.pos)} |-> IF ty.r # "Ok" THEN ty ELSE
        IF PeekIs(toks, ty.pos, K_eq)
        THEN Only([x \in {parse_expr(toks, ty.pos + 1)} |-> IF x.r # "Ok" THEN x ELSE
                 POk(DataField(name.v, DataType(ty.v), Some(x.v)), x.pos)])
        ELSE POk(DataField(name.v, DataType(ty.v), None), ty.pos)])])])

RECURSIVE FieldsFrom(_, _, _)
FieldsFrom(toks, pos, fields) ==
    IF pos <= Len(toks) /\ toks[pos] # K_rbrace
    THEN Only([f \in {parse_data_field(toks, pos)} |-> IF f.r # "Ok" THEN f ELSE
             FieldsFrom(toks, f.pos, Append(fields, f.v))])
    ELSE POk(fields, pos)

parse_data_model(toks, pos) ==
    Only([a \in {expect(toks, pos, K_data)} |-> IF a.r # "Ok" THEN a ELSE
    Only([name \in {expect_ident(toks, a.pos)} |-> IF name.r # "Ok" THEN name ELSE
    Only([b \in {expect(toks, name.pos, K_lbrace)} |-> IF b.r # "Ok" THEN b ELSE
    Only([fields \in {FieldsFrom(toks, b.pos, <<>>)} |-> IF fields.r # "Ok" THEN fields ELSE
    Only([c \in {expect(toks, fields.pos, K_rbrace)} |-> IF c.r # "Ok" THEN c ELSE
        POk(DataModel(name.v, fields.v), c.pos)])])])])])

RECURSIVE DataModelsFrom(_, _, _)
DataModelsFrom(toks, pos, models) ==
    IF PeekIs(toks, pos, K_data)
    THEN Only([m \in {parse_data_model(toks, pos)} |-> IF m.r # "Ok" THEN m ELSE
             DataModelsFrom(toks, m.pos, Append(models, m.v))])
    ELSE POk(models, pos)
parse_data_models(toks, pos) == DataModelsFrom(toks, pos, <<>>)

RECURSIVE ParametersFrom(_, _, _)
ParametersFrom(toks, pos, params) ==
    IF PeekIs(toks, pos, K_rparen) THEN POk(params, pos)
    ELSE Only([name \in {expect_ident(toks, pos)} |-> IF name.r # "Ok" THEN name ELSE
         Only([a \in {expect(toks, name.pos, K_colon)} |-> IF a.r # "Ok" THEN a ELSE
         Only([ty \in {expect_ident(toks, a.pos)} |-> IF ty.r # "Ok" THEN ty ELSE
             ParametersFrom(toks, IF PeekIs(toks, ty.pos, K_comma) THEN ty.pos + 1 ELSE ty.pos,
                            Append(params, Parameter(name.v, ty.v)))])])])

parse_parameters(toks, pos) ==
    Only([a \in {expect(toks, pos, K_lparen)} |-> IF a.r # "Ok" THEN a ELSE
    Only([params \in {ParametersFrom(toks, a.pos, <<>>)} |-> IF params.r # "Ok" THEN params ELSE
    Only([b \in {expect(toks, params.pos, K_rparen)} |-> IF b.r # "Ok" THEN b ELSE
        POk(params.v, b.pos)])])])

parse_state(toks, pos) ==
    Only([a \in {expect(toks, pos, K_state)} |-> IF a.r # "Ok" THEN a ELSE
    Only([name \in {expect_ident(toks, a.pos)} |-> IF name.r # "Ok" THEN name ELSE
    Only([b \in {expect(toks, name.pos, K_eq)} |-> IF b.r # "Ok" THEN b ELSE
    Only([value \in {parse_expr(toks, b.pos)} |-> IF value.r # "Ok" THEN value ELSE
        POk(StateDecl_new(name.v, value.v), value.pos)])])])])

RECURSIVE StatesFrom(_, _, _)
StatesFrom(toks, pos, state) ==
    IF PeekIs(toks, pos, K_state)
    THEN Only([st \in {parse_state(toks, pos)} |-> IF st.r # "Ok" THEN st ELSE
             StatesFrom(toks, st.pos, Append(state, st.v))])
    ELSE POk(state, pos)

parse_string_or_expr(toks, pos) ==
    IF pos <= Len(toks) /\ Quoted(toks[pos]) THEN parse_string(toks, pos)
    ELSE IF pos > Len(toks) THEN PPanic("called Option::unwrap() on a None value")
    ELSE IF starts_with(toks[pos], K_dollar) /\ contains(toks[pos], K_lbrace)
         THEN POk(toks[pos], pos + 1)
    ELSE PErr(Unexpected(toks[pos]))

\* the token loop of parse_action_block; code is action_code, nav is navigate
RECURSIVE ActionBlockFrom(_, _, _, _)
ActionBlockFrom(toks, pos, code, nav) ==
    IF pos > Len(toks) \/ toks[pos] = K_rbrace THEN POk([code |-> code, nav |-> nav], pos)
    ELSE IF toks[pos] = K_arrow
         THEN Only([screen \in {expect_ident(toks, pos + 1)} |-> IF screen.r # "Ok" THEN screen ELSE
                  IF PeekIs(toks, screen.pos, K_lparen)
                  THEN Only([args \in {parse_arg_list(toks, screen.pos)} |-> IF args.r # "Ok" THEN args ELSE
                           ActionBlockFrom(toks, args.pos, code,
                                           Some(NavigationTo(screen.v, args.v)))])
                  ELSE ActionBlockFrom(toks, screen.pos, code,
                                       Some(NavigationTo(screen.v, <<>>)))])
    ELSE ActionBlockFrom(toks, pos + 1, code \o toks[pos] \o K_space, nav)

parse_action_block(toks, pos) ==
    Only([a \in {expect(toks, pos, K_lbrace)} |-> IF a.r # "Ok" THEN a ELSE
    Only([blk \in {ActionBlockFrom(toks, a.pos, <<>>, None)} |-> IF blk.r # "Ok" THEN blk ELSE
    Only([b \in {expect(toks, blk.pos, K_rbrace)} |-> IF b.r # "Ok" THEN b ELSE
        POk([action   |-> IF trim(blk.v.code) = <<>> THEN None ELSE Some(trim(blk.v.code)),
             navigate |-> blk.v.nav], b.pos)])])])

RECURSIVE parse_ui(_, _), ChildrenFrom(_, _, _)
ChildrenFrom(toks, pos, children) ==
    IF pos <= Len(toks) /\ toks[pos] # K_rbrace
    THEN Only([child \in {parse_ui(toks, pos)} |-> IF child.r # "Ok" THEN child ELSE
             ChildrenFrom(toks, child.pos, Append(children, child.v))])
    ELSE POk(children, pos)

parse_container(toks, pos, kind) ==
    Only([a \in {expect(toks, pos, K_lbrace)} |-> IF a.r # "Ok" THEN a ELSE
    Only([children \in {ChildrenFrom(toks, a.pos, <<>>)} |-> IF children.r # "Ok" THEN children ELSE
    Only([b \in {expect(toks, children.pos, K_rbrace)} |-> IF b.r # "Ok" THEN b ELSE
        POk([k |-> kind, children |-> children.v], b.pos)])])])

\* the token at pos is the one parse_ui takes with iter.next()
parse_ui(toks, pos) ==
    IF pos > Len(toks) THEN PErr(Unexpected(K_EOF))
    ELSE IF toks[pos] = K_column THEN parse_container(toks, pos + 1, "Column")
    ELSE IF toks[pos] = K_row THEN parse_container(toks, pos + 1, "Row")
    ELSE IF toks[pos] = K_stack THEN parse_container(toks, pos + 1, "Stack")
    ELSE IF toks[pos] = K_label
         THEN Only([content \in {parse_string_or_expr(toks, pos + 1)} |-> IF content.r # "Ok" THEN content ELSE
                  POk(UI_Label(content.v), content.pos)])
    ELSE IF toks[pos] = K_title
         THEN Only([content \in {parse_string_or_expr(toks, pos + 1)} |-> IF content.r # "Ok" THEN content ELSE
                  POk(UI_Title(content.v), content.pos)])
    ELSE IF toks[pos] = K_button
         THEN Only([label \in {parse_string_or_expr(toks, pos + 1)} |-> IF label.r # "Ok" THEN label ELSE
              Only([blk \in {parse_action_block(toks, label.pos)} |-> IF blk.r # "Ok" THEN blk ELSE
                  POk(UI_Button(label.v, blk.v.action, blk.v.navigate), blk.pos)])])
    ELSE IF toks[pos] = K_image
         THEN Only([src \in {parse_string(toks, pos + 1)} |-> IF src.r # "Ok" THEN src ELSE
                  POk(UI_Image(src.v), src.pos)])
    ELSE IF toks[pos] = K_input
         THEN Only([label \in {parse_string(toks, pos + 1)} |-> IF label.r # "Ok" THEN label ELSE
              Only([a \in {expect(toks, label.pos, K_binding)} |-> IF a.r # "Ok" THEN a ELSE
              Only([b \in {expect(toks, a.pos, K_colon)} |-> IF b.r # "Ok" THEN b ELSE
              Only([binding \in {expect_ident(toks, b.pos)} |-> IF binding.r # "Ok" THEN binding ELSE
                  POk(UI_Input(label.v, binding.v), binding.pos)])])])])
    ELSE IF toks[pos] = K_list
         THEN Only([items \in {expect_ident(toks, pos + 1)} |-> IF items.r # "Ok" THEN items ELSE
              Only([a \in {expect(toks, items.pos, K_lbrace)} |-> IF a.r # "Ok" THEN a ELSE
              Only([child \in {parse_ui(toks, a.pos)} |-> IF child.r # "Ok" THEN child ELSE
              Only([b \in {expect(toks, child.pos, K_rbrace)} |-> IF b.r # "Ok" THEN b ELSE
                  POk(UI_List(items.v, child.v), b.pos)])])])])
    ELSE IF toks[pos] = K_if
         THEN Only([condition \in {parse_expr(toks, pos + 1)} |-> IF condition.r # "Ok" THEN condition ELSE
              Only([a \in {expect(toks, condition.pos, K_lbrace)} |-> IF a.r # "Ok" THEN a ELSE
              Only([then_branch \in {parse_ui(toks, a.pos)} |-> IF then_branch.r # "Ok" THEN then_branch ELSE
              Only([b \in {expect(toks, then_branch.pos, K_rbrace)} |-> IF b.r # "Ok" THEN b ELSE
                  IF PeekIs(toks, b.pos, K_else)
                  THEN Only([c \in {expect(toks, b.pos + 1, K_lbrace)} |-> IF c.r # "Ok" THEN c ELSE
                       Only([else_branch \in {parse_ui(toks, c.pos)} |-> IF else_branch.r # "Ok" THEN else_branch ELSE
                       Only([d \in {expect(toks, else_branch.pos, K_rbrace)} |-> IF d.r # "Ok" THEN d ELSE
                           POk(UI_Conditional(condition.v, then_branch.v,
                                              Some(else_branch.v)), d.pos)])])])
                  ELSE POk(UI_Conditional(condition.v, then_branch.v, None), b.pos)])])])])
    ELSE IF starts_with(toks[pos], K_dollar) /\ contains(toks[pos], K_lbrace)
         THEN POk(UI_Label(toks[pos]), pos + 1)
    ELSE PErr(Unexpected(toks[pos]))

\* the code loop of parse_action: tokens up to "}" joined with spaces
RECURSIVE CodeFrom(_, _, _)
CodeFrom(toks, pos, code) ==
    IF pos <= Len(toks) /\ toks[pos] # K_rbrace
    THEN CodeFrom(toks, pos + 1, code \o toks[pos] \o K_space)
    ELSE POk(code, pos)

\* Ok(Some(Action)), or Ok(None) with nothing consumed when the token is not `on`
parse_action(toks, pos) ==
    IF PeekIs(toks, pos, K_on)
    THEN Only([event \in {expect_ident(toks, pos + 1)} |-> IF event.r # "Ok" THEN event ELSE
         Only([a \in {expect(toks, event.pos, K_lbrace)} |-> IF a.r # "Ok" THEN a ELSE
         Only([code \in {CodeFrom(toks, a.pos, <<>>)} |-> IF code.r # "Ok" THEN code ELSE
         Only([b \in {expect(toks, code.pos, K_rbrace)} |-> IF b.r # "Ok" THEN b ELSE
             POk(Some(ActionCode(trim(code.v))), b.pos)])])])])
    ELSE POk(None, pos)

\* while iter.peek().map(|t| t != "}") == Some(true) { parse_action(iter)? .. }:
\* a token that is neither `on` nor "}" is never consumed
RECURSIVE ActionsFrom(_, _, _)
ActionsFrom(toks, pos, actions) ==
    IF pos <= Len(toks) /\ toks[pos] # K_rbrace
    THEN IF toks[pos] # K_on THEN PHang
         ELSE Only([act \in {parse_action(toks, pos)} |-> IF act.r # "Ok" THEN act ELSE
                  ActionsFrom(toks, act.pos, actions \o act.v)])
    ELSE POk(actions, pos)

parse_screen(toks, pos) ==
    Only([a \in {expect(toks, pos, K_screen)} |-> IF a.r # "Ok" THEN a ELSE
    Only([name \in {expect_ident(toks, a.pos)} |-> IF name.r # "Ok" THEN name ELSE
    Only([parameters \in {IF PeekIs(toks, name.pos, K_lparen) THEN parse_parameters(toks, name.pos)
        ELSE POk(<<>>, name.pos)} |-> IF parameters.r # "Ok" THEN parameters ELSE
    Only([b \in {expect(toks, parameters.pos, K_lbrace)} |-> IF b.r # "Ok" THEN b ELSE
    Only([state \in {StatesFrom(toks, b.pos, <<>>)} |-> IF state.r # "Ok" THEN state ELSE
    Only([c \in {expect(toks, state.pos, K_ui)} |-> IF c.r # "Ok" THEN c ELSE
    Only([d \in {expect(toks, c.pos, K_lbrace)} |-> IF d.r # "Ok" THEN d ELSE
    Only([ui \in {parse_ui(toks, d.pos)} |-> IF ui.r # "Ok" THEN ui ELSE
    Only([e \in {expect(toks, ui.pos, K_rbrace)} |-> IF e.r # "Ok" THEN e ELSE
    Only([actions \in {ActionsFrom(toks, e.pos, <<>>)} |-> IF actions.r # "Ok" THEN actions ELSE
    Only([f \in {expect(toks, actions.pos, K_rbrace)} |-> IF f.r # "Ok" THEN f ELSE
        POk(ScreenDecl(name.v, parameters.v, state.v, ui.v, actions.v), f.pos)])])])])])])])])])])])

\* while let Some(token) = iter.peek(): a screen, or one token skipped
RECURSIVE ScreensFrom(_, _, _)
ScreensFrom(toks, pos, screens) ==
    IF pos > Len(toks) THEN POk(screens, pos)
    ELSE IF toks[pos] = K_screen
         THEN Only([sc \in {parse_screen(toks, pos)} |-> IF sc.r # "Ok" THEN sc ELSE
                  ScreensFrom(toks, sc.pos, Append(screens, sc.v))])
    ELSE ScreensFrom(toks, pos + 1, screens)
parse_screens(toks, pos) == ScreensFrom(toks, pos, <<>>)

\* the four parsing steps parser::parse and enhanced_parser::parse share
ParseTokens(toks) ==
    Only([app \in {parse_app(toks, 1)} |-> IF app.r # "Ok" THEN app ELSE
    Only([imports \in {parse_imports(toks, app.pos)} |-> IF imports.r # "Ok" THEN imports ELSE
    Only([data_models \in {parse_data_models(toks, imports.pos)} |-> IF data_models.r # "Ok" THEN data_models ELSE
    Only([screens \in {parse_screens(toks, data_models.pos)} |-> IF screens.r # "Ok" THEN screens ELSE
        POk([app.v EXCEPT !.imports = imports.v, !.data_models = data_models.v,
                          !.screens = screens.v], screens.pos)])])])])

\* parser::parse(source)
parse(source) == Only([toks \in {tokenize(source)} |-> ParseTokens(toks)])

---------------------------------------------------------------------------
(* Texts of the compiler's messages and patterns *)

M_Unexpected_token_colon ==
    <<"U", "n", "e", "x", "p", "e", "c", "t", "e", "d", " ", "t", "o", "k", "e", "n", ":", " ">>
M_Expected_identifier ==
    <<"E", "x", "p", "e", "c", "t", "e", "d", " ", "i", "d", "e", "n", "t", "i", "f", "i", "e",
      "r">>
M_Unterminated_string ==
    <<"U", "n", "t", "e", "r", "m", "i", "n", "a", "t", "e", "d", " ", "s", "t", "r", "i", "n",
      "g">>
M_Undefined_reference_colon ==
    <<"U", "n", "d", "e", "f", "i", "n", "e", "d", " ", "r", "e", "f", "e", "r", "e", "n", "c",
      "e", ":", " ">>
M_Duplicate_definition_colon ==
    <<"D", "u", "p", "l", "i", "c", "a", "t", "e", " ", "d", "e", "f", "i", "n", "i", "t", "i",
      "o", "n", ":", " ">>
M_Security_violation_colon ==
    <<"S", "e", "c", "u", "r", "i", "t", "y", " ", "v", "i", "o", "l", "a", "t", "i", "o", "n",
      ":", " ">>
M_Import_statements_not_allowed_in_strict_ ==
    <<"I", "m", "p", "o", "r", "t", " ", "s", "t", "a", "t", "e", "m", "e", "n", "t", "s", " ",
      "n", "o", "t", " ", "a", "l", "l", "o", "w", "e", "d", " ", "i", "n", " ", "s", "t", "r",
      "i", "c", "t", " ", "m", "o", "d", "e">>
M_require == <<"r", "e", "q", "u", "i", "r", "e">>
M_Require_statements_not_allowed ==
    <<"R", "e", "q", "u", "i", "r", "e", " ", "s", "t", "a", "t", "e", "m", "e", "n", "t", "s",
      " ", "n", "o", "t", " ", "a", "l", "l", "o", "w", "e", "d">>
M_Code_evaluation_functions_blocked ==
    <<"C", "o", "d", "e", " ", "e", "v", "a", "l", "u", "a", "t", "i", "o", "n", " ", "f", "u",
      "n", "c", "t", "i", "o", "n", "s", " ", "b", "l", "o", "c", "k", "e", "d">>
M_Code_execution_functions_blocked ==
    <<"C", "o", "d", "e", " ", "e", "x", "e", "c", "u", "t", "i", "o", "n", " ", "f", "u", "n",
      "c", "t", "i", "o", "n", "s", " ", "b", "l", "o", "c", "k", "e", "d">>
M_dunder_import == <<"_", "_", "i", "m", "p", "o", "r", "t", "_", "_">>
M_Dynamic_imports_blocked ==
    <<"D", "y", "n", "a", "m", "i", "c", " ", "i", "m", "p", "o", "r", "t", "s", " ", "b", "l",
      "o", "c", "k", "e", "d">>
M_getattr == <<"g", "e", "t", "a", "t", "t", "r">>
M_Attribute_access_functions_blocked ==
    <<"A", "t", "t", "r", "i", "b", "u", "t", "e", " ", "a", "c", "c", "e", "s", "s", " ", "f",
      "u", "n", "c", "t", "i", "o", "n", "s", " ", "b", "l", "o", "c", "k", "e", "d">>
M_setattr == <<"s", "e", "t", "a", "t", "t", "r">>
M_Attribute_modification_functions_blocked ==
    <<"A", "t", "t", "r", "i", "b", "u", "t", "e", " ", "m", "o", "d", "i", "f", "i", "c", "a",
      "t", "i", "o", "n", " ", "f", "u", "n", "c", "t", "i", "o", "n", "s", " ", "b", "l", "o",
      "c", "k", "e", "d">>
M_system == <<"s", "y", "s", "t", "e", "m">>
M_System_calls_blocked ==
    <<"S", "y", "s", "t", "e", "m", " ", "c", "a", "l", "l", "s", " ", "b", "l", "o", "c", "k",
      "e", "d">>
M_shell == <<"s", "h", "e", "l", "l">>
M_Shell_access_blocked ==
    <<"S", "h", "e", "l", "l", " ", "a", "c", "c", "e", "s", "s", " ", "b", "l", "o", "c", "k",
      "e", "d">>
M_process == <<"p", "r", "o", "c", "e", "s", "s">>
M_Process_manipulation_blocked ==
    <<"P", "r", "o", "c", "e", "s", "s", " ", "m", "a", "n", "i", "p", "u", "l", "a", "t", "i",
      "o", "n", " ", "b", "l", "o", "c", "k", "e", "d">>
M_subprocess == <<"s", "u", "b", "p", "r", "o", "c", "e", "s", "s">>
M_Subprocess_creation_blocked ==
    <<"S", "u", "b", "p", "r", "o", "c", "e", "s", "s", " ", "c", "r", "e", "a", "t", "i", "o",
      "n", " ", "b", "l", "o", "c", "k", "e", "d">>
M_file_lparen == <<"f", "i", "l", "e", "(">>
M_Direct_file_access_blocked ==
    <<"D", "i", "r", "e", "c", "t", " ", "f", "i", "l", "e", " ", "a", "c", "c", "e", "s", "s",
      " ", "b", "l", "o", "c", "k", "e", "d">>
M_open_lparen == <<"o", "p", "e", "n", "(">>
M_File_opening_functions_blocked ==
    <<"F", "i", "l", "e", " ", "o", "p", "e", "n", "i", "n", "g", " ", "f", "u", "n", "c", "t",
      "i", "o", "n", "s", " ", "b", "l", "o", "c", "k", "e", "d">>
M_Code_evaluation_detected ==
    <<"C", "o", "d", "e", " ", "e", "v", "a", "l", "u", "a", "t", "i", "o", "n", " ", "d", "e",
      "t", "e", "c", "t", "e", "d">>
M_Code_execution_detected ==
    <<"C", "o", "d", "e", " ", "e", "x", "e", "c", "u", "t", "i", "o", "n", " ", "d", "e", "t",
      "e", "c", "t", "e", "d">>
M_https_colon == <<"h", "t", "t", "p", "s", ":", "/", "/">>
M_Source_code_exceeds_size_limit_lparen_1M ==
    <<"S", "o", "u", "r", "c", "e", " ", "c", "o", "d", "e", " ", "e", "x", "c", "e", "e", "d",
      "s", " ", "s", "i", "z", "e", " ", "l", "i", "m", "i", "t", " ", "(", "1", "M", "B", ")">>
M_Source_code_cannot_be_empty ==
    <<"S", "o", "u", "r", "c", "e", " ", "c", "o", "d", "e", " ", "c", "a", "n", "n", "o", "t",
      " ", "b", "e", " ", "e", "m", "p", "t", "y">>
M_External_URLs_not_allowed_in_strict_mode ==
    <<"E", "x", "t", "e", "r", "n", "a", "l", " ", "U", "R", "L", "s", " ", "n", "o", "t", " ",
      "a", "l", "l", "o", "w", "e", "d", " ", "i", "n", " ", "s", "t", "r", "i", "c", "t", " ",
      "m", "o", "d", "e">>
M_External_URL_detected ==
    <<"E", "x", "t", "e", "r", "n", "a", "l", " ", "U", "R", "L", " ", "d", "e", "t", "e", "c",
      "t", "e", "d">>
M_Dangerous_function_call_colon ==
    <<"D", "a", "n", "g", "e", "r", "o", "u", "s", " ", "f", "u", "n", "c", "t", "i", "o", "n",
      " ", "c", "a", "l", "l", ":", " ">>
M_Unsafe_import_colon ==
    <<"U", "n", "s", "a", "f", "e", " ", "i", "m", "p", "o", "r", "t", ":", " ">>
M_Resource_limit_exceeded_colon ==
    <<"R", "e", "s", "o", "u", "r", "c", "e", " ", "l", "i", "m", "i", "t", " ", "e", "x", "c",
      "e", "e", "d", "e", "d", ":", " ">>
M_open_paren == <<" ", "(">>
M_exceeds == <<" ", ">", " ">>
M_Code_complexity_too_high_colon ==
    <<"C", "o", "d", "e", " ", "c", "o", "m", "p", "l", "e", "x", "i", "t", "y", " ", "t", "o",
      "o", " ", "h", "i", "g", "h", ":", " ">>
M_Unsafe_data_access_colon ==
    <<"U", "n", "s", "a", "f", "e", " ", "d", "a", "t", "a", " ", "a", "c", "c", "e", "s", "s",
      ":", " ">>
M_compile == <<"c", "o", "m", "p", "i", "l", "e">>
M_globals == <<"g", "l", "o", "b", "a", "l", "s">>
M_locals == <<"l", "o", "c", "a", "l", "s">>
M_open == <<"o", "p", "e", "n">>
M_file == <<"f", "i", "l", "e">>
M_read == <<"r", "e", "a", "d">>
M_write == <<"w", "r", "i", "t", "e">>
M_fetch == <<"f", "e", "t", "c", "h">>
M_request == <<"r", "e", "q", "u", "e", "s", "t">>
M_http == <<"h", "t", "t", "p">>
M_socket == <<"s", "o", "c", "k", "e", "t">>
M_spawn == <<"s", "p", "a", "w", "n">>
M_fork == <<"f", "o", "r", "k">>
M_thread == <<"t", "h", "r", "e", "a", "d">>
M_sprout_ui == <<"@", "s", "p", "r", "o", "u", "t", "/", "u", "i">>
M_sprout_data == <<"@", "s", "p", "r", "o", "u", "t", "/", "d", "a", "t", "a">>
M_sprout_utils == <<"@", "s", "p", "r", "o", "u", "t", "/", "u", "t", "i", "l", "s">>
M_sprout_widgets ==
    <<"@", "s", "p", "r", "o", "u", "t", "/", "w", "i", "d", "g", "e", "t", "s">>
M_sprout_animation ==
    <<"@", "s", "p", "r", "o", "u", "t", "/", "a", "n", "i", "m", "a", "t", "i", "o", "n">>
M_state_variables_in_screen ==
    <<"s", "t", "a", "t", "e", " ", "v", "a", "r", "i", "a", "b", "l", "e", "s", " ", "i", "n",
      " ", "s", "c", "r", "e", "e", "n", " ", "'">>
M_apostrophe == <<"'">>
M_UI_elements_in_screen ==
    <<"U", "I", " ", "e", "l", "e", "m", "e", "n", "t", "s", " ", "i", "n", " ", "s", "c", "r",
      "e", "e", "n", " ", "'">>
M_screens == <<"s", "c", "r", "e", "e", "n", "s">>
M_proto == <<"_", "_", "p", "r", "o", "t", "o", "_", "_">>
M_constructor == <<"c", "o", "n", "s", "t", "r", "u", "c", "t", "o", "r">>
M_prototype == <<"p", "r", "o", "t", "o", "t", "y", "p", "e">>
M_Dangerous_state_variable_name_colon ==
    <<"D", "a", "n", "g", "e", "r", "o", "u", "s", " ", "s", "t", "a", "t", "e", " ", "v", "a",
      "r", "i", "a", "b", "l", "e", " ", "n", "a", "m", "e", ":", " ">>
M_expression_nesting_depth ==
    <<"e", "x", "p", "r", "e", "s", "s", "i", "o", "n", " ", "n", "e", "s", "t", "i", "n", "g",
      " ", "d", "e", "p", "t", "h">>
M_function_calls == <<"f", "u", "n", "c", "t", "i", "o", "n", " ", "c", "a", "l", "l", "s">>
M_string_length == <<"s", "t", "r", "i", "n", "g", " ", "l", "e", "n", "g", "t", "h">>
M_script == <<"<", "s", "c", "r", "i", "p", "t">>
M_Potential_code_injection_in_string_liter ==
    <<"P", "o", "t", "e", "n", "t", "i", "a", "l", " ", "c", "o", "d", "e", " ", "i", "n", "j",
      "e", "c", "t", "i", "o", "n", " ", "i", "n", " ", "s", "t", "r", "i", "n", "g", " ", "l",
      "i", "t", "e", "r", "a", "l">>
M_eval_function == <<"e", "v", "a", "l", " ", "f", "u", "n", "c", "t", "i", "o", "n">>
M_exec_function == <<"e", "x", "e", "c", " ", "f", "u", "n", "c", "t", "i", "o", "n">>
M_system_lparen == <<"s", "y", "s", "t", "e", "m", "(">>
M_system_call == <<"s", "y", "s", "t", "e", "m", " ", "c", "a", "l", "l">>
M_import_lparen == <<"_", "_", "i", "m", "p", "o", "r", "t", "_", "_", "(">>
M_dynamic_import == <<"d", "y", "n", "a", "m", "i", "c", " ", "i", "m", "p", "o", "r", "t">>
M_file_access == <<"f", "i", "l", "e", " ", "a", "c", "c", "e", "s", "s">>
M_fetch_lparen == <<"f", "e", "t", "c", "h", "(">>
M_network_request ==
    <<"n", "e", "t", "w", "o", "r", "k", " ", "r", "e", "q", "u", "e", "s", "t">>
M_XMLHttpRequest == <<"X", "M", "L", "H", "t", "t", "p", "R", "e", "q", "u", "e", "s", "t">>
M_document_dot == <<"d", "o", "c", "u", "m", "e", "n", "t", ".">>
M_DOM_access == <<"D", "O", "M", " ", "a", "c", "c", "e", "s", "s">>
M_window_dot == <<"w", "i", "n", "d", "o", "w", ".">>
M_global_object_access ==
    <<"g", "l", "o", "b", "a", "l", " ", "o", "b", "j", "e", "c", "t", " ", "a", "c", "c", "e",
      "s", "s">>
M_location_dot == <<"l", "o", "c", "a", "t", "i", "o", "n", ".">>
M_location_access ==
    <<"l", "o", "c", "a", "t", "i", "o", "n", " ", "a", "c", "c", "e", "s", "s">>
M_setTimeout_lparen == <<"s", "e", "t", "T", "i", "m", "e", "o", "u", "t", "(">>
M_timer_function == <<"t", "i", "m", "e", "r", " ", "f", "u", "n", "c", "t", "i", "o", "n">>
M_setInterval_lparen == <<"s", "e", "t", "I", "n", "t", "e", "r", "v", "a", "l", "(">>
M_DROP == <<"D", "R", "O", "P", " ">>
M_DELETE == <<"D", "E", "L", "E", "T", "E", " ">>
M_UPDATE == <<"U", "P", "D", "A", "T", "E", " ">>
M_INSERT == <<"I", "N", "S", "E", "R", "T", " ">>
M_SELECT == <<"S", "E", "L", "E", "C", "T", " ">>
M_Potential_SQL_injection_pattern_detected ==
    <<"P", "o", "t", "e", "n", "t", "i", "a", "l", " ", "S", "Q", "L", " ", "i", "n", "j", "e",
      "c", "t", "i", "o", "n", " ", "p", "a", "t", "t", "e", "r", "n", " ", "d", "e", "t", "e",
      "c", "t", "e", "d">>
M_UI_nesting_depth ==
    <<"U", "I", " ", "n", "e", "s", "t", "i", "n", "g", " ", "d", "e", "p", "t", "h">>
M_Insecure_HTTP_image_source_detected ==
    <<"I", "n", "s", "e", "c", "u", "r", "e", " ", "H", "T", "T", "P", " ", "i", "m", "a", "g",
      "e", " ", "s", "o", "u", "r", "c", "e", " ", "d", "e", "t", "e", "c", "t", "e", "d">>
M_data_colon == <<"d", "a", "t", "a", ":">>
M_Dangerous_image_source_scheme_detected ==
    <<"D", "a", "n", "g", "e", "r", "o", "u", "s", " ", "i", "m", "a", "g", "e", " ", "s", "o",
      "u", "r", "c", "e", " ", "s", "c", "h", "e", "m", "e", " ", "d", "e", "t", "e", "c", "t",
      "e", "d">>
M_READ_EXTERNAL_STORAGE ==
    <<"R", "E", "A", "D", "_", "E", "X", "T", "E", "R", "N", "A", "L", "_", "S", "T", "O", "R",
      "A", "G", "E">>
M_password == <<"p", "a", "s", "s", "w", "o", "r", "d">>
M_secret == <<"s", "e", "c", "r", "e", "t">>
M_Script_injection_attempt_detected_in_tex ==
    <<"S", "c", "r", "i", "p", "t", " ", "i", "n", "j", "e", "c", "t", "i", "o", "n", " ", "a",
      "t", "t", "e", "m", "p", "t", " ", "d", "e", "t", "e", "c", "t", "e", "d", " ", "i", "n",
      " ", "t", "e", "x", "t">>
M_camera == <<"c", "a", "m", "e", "r", "a">>
M_CAMERA == <<"C", "A", "M", "E", "R", "A">>
M_location == <<"l", "o", "c", "a", "t", "i", "o", "n">>
M_ACCESS_FINE_LOCATION ==
    <<"A", "C", "C", "E", "S", "S", "_", "F", "I", "N", "E", "_", "L", "O", "C", "A", "T", "I",
      "O", "N">>
M_notification == <<"n", "o", "t", "i", "f", "i", "c", "a", "t", "i", "o", "n">>
M_POST_NOTIFICATIONS ==
    <<"P", "O", "S", "T", "_", "N", "O", "T", "I", "F", "I", "C", "A", "T", "I", "O", "N", "S">>
M_Parse_error_colon == <<"P", "a", "r", "s", "e", " ", "e", "r", "r", "o", "r", ":", " ">>
M_Security_analysis_failed_colon ==
    <<"S", "e", "c", "u", "r", "i", "t", "y", " ", "a", "n", "a", "l", "y", "s", "i", "s", " ",
      "f", "a", "i", "l", "e", "d", ":", " ">>
M_Back == <<"B", "a", "c", "k">>
M_Target_screen == <<"T", "a", "r", "g", "e", "t", " ", "s", "c", "r", "e", "e", "n", " ", "'">>
M_not_defined == <<"'", " ", "n", "o", "t", " ", "d", "e", "f", "i", "n", "e", "d">>
M_List_items == <<"L", "i", "s", "t", " ", "i", "t", "e", "m", "s", " ", "'">>
M_Bound_variable ==
    <<"B", "o", "u", "n", "d", " ", "v", "a", "r", "i", "a", "b", "l", "e", " ", "'">>
M_State == <<"S", "t", "a", "t", "e", " ", "'">>
M_defined_multiple_times ==
    <<"'", " ", "d", "e", "f", "i", "n", "e", "d", " ", "m", "u", "l", "t", "i", "p", "l", "e",
      " ", "t", "i", "m", "e", "s">>
M_Start_screen == <<"S", "t", "a", "r", "t", " ", "s", "c", "r", "e", "e", "n", " ", "'">>

---------------------------------------------------------------------------
(* lib.rs: SproutError, SecurityReport, validate_source_code *)

\* the Display text of a ParseError
ParseError_to_string(err) ==
    CASE err.e = "Unexpected" -> M_Unexpected_token_colon \o err.token
      [] err.e = "ExpectedIdent" -> M_Expected_identifier
      [] err.e = "UnterminatedString" -> M_Unterminated_string
      [] err.e = "UndefinedReference" -> M_Undefined_reference_colon \o err.what
      [] err.e = "DuplicateDefinition" -> M_Duplicate_definition_colon \o err.what

\* SproutError::Security(msg) and its Display text
SproutError_Security(msg) == [e |-> "Security", msg |-> msg]
SproutError_to_string(err) == M_Security_violation_colon \o err.msg

\* SecurityReport::default() with the given findings; the code quality score,
\* which no other field depends on, is left out
SecurityReport(risk_level, external_resources, security_warnings) ==
    [risk_level |-> risk_level,
     required_permissions |-> {},
     external_resources |-> external_resources,
     navigation_targets |-> {},
     function_calls |-> {},
     security_warnings |-> security_warnings]

MAX_SOURCE_BYTES == 1000000

\* (pattern, description) pairs of each security level, in the order tried
StrictPatterns ==
    << <<K_import, M_Import_statements_not_allowed_in_strict_>>,
       <<M_require, M_Require_statements_not_allowed>>,
       <<T_eval, M_Code_evaluation_functions_blocked>>,
       <<T_exec, M_Code_execution_functions_blocked>>,
       <<M_dunder_import, M_Dynamic_imports_blocked>>,
       <<M_getattr, M_Attribute_access_functions_blocked>>,
       <<M_setattr, M_Attribute_modification_functions_blocked>>,
       <<M_system, M_System_calls_blocked>>,
       <<M_shell, M_Shell_access_blocked>>,
       <<M_process, M_Process_manipulation_blocked>>,
       <<M_subprocess, M_Subprocess_creation_blocked>>,
       <<M_file_lparen, M_Direct_file_access_blocked>>,
       <<M_open_lparen, M_File_opening_functions_blocked>> >>
ModeratePatterns ==
    << <<T_eval, M_Code_evaluation_functions_blocked>>,
       <<T_exec, M_Code_execution_functions_blocked>>,
       <<M_dunder_import, M_Dynamic_imports_blocked>>,
       <<M_system, M_System_calls_blocked>>,
       <<M_shell, M_Shell_access_blocked>>,
       <<M_subprocess, M_Subprocess_creation_blocked>> >>
PermissivePatterns ==
    << <<T_eval, M_Code_evaluation_detected>>,
       <<T_exec, M_Code_execution_detected>> >>
dangerous_patterns(security_level) ==
    CASE security_level = "Strict" -> StrictPatterns
      [] security_level = "Moderate" -> ModeratePatterns
      [] security_level = "Permissive" -> PermissivePatterns
blocked_urls(security_level) == security_level = "Strict"

\* the leftmost match of https?://[^\s]+ in source, as Some(text) or None
url_find(source) ==
    LET at(i, scheme) ==
            /\ i + Len(scheme) <= Len(source)
            /\ SubSeq(source, i, i + Len(scheme) - 1) = scheme
            /\ ~IsWs(source[i + Len(scheme)])
        starts == {i \in 1..Len(source) : at(i, T_http) \/ at(i, M_https_colon)}
    IN  IF starts = {} THEN None
        ELSE Only([b \in {SetMin(starts)} |->
                Some(SubSeq(source, b,
                            SetMin({j \in b..Len(source) :
                                      j = Len(source) \/ IsWs(source[j + 1])})))])

\* the risk level both validate_source_code and the analyzer's report use
risk_of(external_resources, security_warnings) ==
    IF external_resources # {} \/ Len(security_warnings) > 3 THEN "High"
    ELSE IF security_warnings # <<>> THEN "Medium"
    ELSE "Low"

\* Result<SecurityReport, SproutError>: [r |-> "Ok", v |-> report] or [r |-> "Err", err]
validate_source_code(source, security_level) ==
    IF Len(source) > MAX_SOURCE_BYTES
    THEN [r |-> "Err", err |-> SproutError_Security(M_Source_code_exceeds_size_limit_lparen_1M)]
    ELSE IF trim(source) = <<>>
    THEN [r |-> "Err", err |-> SproutError_Security(M_Source_code_cannot_be_empty)]
    ELSE
    Only([lower \in {to_lowercase(source)} |->
    Only([patterns \in {dangerous_patterns(security_level)} |->
    Only([hits \in {Ascending({i \in 1..Len(patterns) : contains(lower, patterns[i][1])})} |->
    Only([url \in {url_find(source)} |->
        IF hits # <<>> /\ security_level \in {"Strict", "Moderate"}
        THEN [r |-> "Err",
              err |-> SproutError_Security(M_Security_violation_colon \o patterns[hits[1]][2])]
        ELSE IF url # None /\ blocked_urls(security_level)
        THEN [r |-> "Err",
              err |-> SproutError_Security(M_External_URLs_not_allowed_in_strict_mode)]
        ELSE Only([warnings \in {[k \in 1..Len(hits) |-> patterns[hits[k]][2]]
                    \o (IF url # None THEN <<M_External_URL_detected>> ELSE <<>>)} |->
                     [r |-> "Ok",
                      v |-> SecurityReport(risk_of({url[k] : k \in 1..Len(url)}, warnings),
                                           {url[k] : k \in 1..Len(url)}, warnings)]])])])])])

\* the sum of a sequence of numbers
RECURSIVE SumRange(_, _, _)
SumRange(seq, lo, hi) ==
    IF lo > hi THEN 0
    ELSE IF lo = hi THEN seq[lo]
    ELSE SumRange(seq, lo, (lo + hi) \div 2) + SumRange(seq, (lo + hi) \div 2 + 1, hi)
SumOver(seq) == Only([s \in {seq} |-> SumRange(s, 1, Len(s))])

---------------------------------------------------------------------------
(* security.rs: SecurityAnalyzer *)

\* SecurityError
DangerousFunction(function) == [e |-> "DangerousFunction", function |-> function]
UnsafeImport(import) == [e |-> "UnsafeImport", import |-> import]
ResourceLimit(resource, current, limit) ==
    [e |-> "ResourceLimit", resource |-> resource, current |-> current, limit |-> limit]
ComplexityLimit(complexity) == [e |-> "ComplexityLimit", complexity |-> complexity]
UnsafeDataAccess(details) == [e |-> "UnsafeDataAccess", details |-> details]

\* the Display text of a SecurityError
SecurityError_to_string(err) ==
    CASE err.e = "DangerousFunction" -> M_Dangerous_function_call_colon \o err.function
      [] err.e = "UnsafeImport" -> M_Unsafe_import_colon \o err.import
      [] err.e = "ResourceLimit" ->
            M_Resource_limit_exceeded_colon \o err.resource \o M_open_paren \o NatStr(err.current)
                \o M_exceeds \o NatStr(err.limit) \o K_rparen
      [] err.e = "ComplexityLimit" -> M_Code_complexity_too_high_colon \o NatStr(err.complexity)
      [] err.e = "UnsafeDataAccess" -> M_Unsafe_data_access_colon \o err.details

ResourceLimits_default ==
    [max_screens |-> 50, max_state_vars |-> 100, max_nesting_depth |-> 10,
     max_string_length |-> 10000, max_function_calls |-> 200, max_ui_elements |-> 500]

SecurityAnalyzer_default ==
    [blocked_functions |->
        {T_eval, T_exec, M_system, M_shell, M_dunder_import, M_getattr,
         M_setattr, M_compile, M_globals, M_locals, M_open, M_file,
         M_read, M_write, M_fetch, M_request, M_http, M_socket,
         M_spawn, M_fork, M_thread},
     allowed_imports |->
        {M_sprout_ui, M_sprout_data, M_sprout_utils, M_sprout_widgets,
         M_sprout_animation},
     resource_limits |-> ResourceLimits_default,
     max_complexity |-> 20]

\* an analyzer whose limits do not follow the level
AnalyzerOfDefaultLimits(level) == SecurityAnalyzer_default

new_with_level(level) ==
    CASE level = "Strict" -> SecurityAnalyzer_default
      [] level = "Moderate" ->
            [SecurityAnalyzer_default EXCEPT
                !.blocked_functions = @ \ {M_getattr, M_setattr},
                !.resource_limits.max_nesting_depth = 15,
                !.max_complexity = 30]
      [] level = "Permissive" ->
            [SecurityAnalyzer_default EXCEPT
                !.blocked_functions = @ \cap {T_eval, T_exec, M_system, M_shell},
                !.resource_limits.max_nesting_depth = 25,
                !.max_complexity = 50]

(* The analyzer's report as the analysis builds it.  err is the SecurityError
   that `?` is propagating, None while the analysis goes on. *)
AnalysisReport_default ==
    [risk_level |-> "Low", required_permissions |-> {}, external_resources |-> {},
     navigation_targets |-> {}, function_calls |-> {}, security_warnings |-> <<>>,
     accessed_state |-> {}, sensitive_inputs |-> {}, required_imports |-> {},
     total_ui_elements |-> 0, complexity_score |-> 0, err |-> None]

Reject(report, error) == [report EXCEPT !.err = Some(error)]
RECURSIVE count_ui_elements(_)
count_ui_elements(ui) ==
    CASE IsContainer(ui) ->
            1 + SumRange([i \in 1..Len(ui.children) |-> count_ui_elements(ui.children[i])],
                         1, Len(ui.children))
      [] ui.k = "List" -> 1 + count_ui_elements(ui.child)
      [] ui.k = "Conditional" ->
            1 + count_ui_elements(ui.then_branch)
              + (IF ui.else_branch # None THEN count_ui_elements(ui.else_branch[1]) ELSE 0)
      [] OTHER -> 1

\* the per-screen loop of check_resource_limits over screens[lo..hi]
RECURSIVE CheckScreens(_, _, _, _, _)
CheckScreens(an, report, screens, lo, hi) ==
    IF lo > hi \/ report.err # None THEN report
    ELSE IF lo = hi
         THEN IF Len(screens[lo].state) > an.resource_limits.max_state_vars
              THEN Reject(report,
                     ResourceLimit(M_state_variables_in_screen \o screens[lo].name \o M_apostrophe,
                                   Len(screens[lo].state), an.resource_limits.max_state_vars))
              ELSE Only([ui_count \in {count_ui_elements(screens[lo].ui)} |->
                     IF ui_count > an.resource_limits.max_ui_elements
                     THEN Reject(report,
                            ResourceLimit(M_UI_elements_in_screen \o screens[lo].name \o M_apostrophe,
                                          ui_count, an.resource_limits.max_ui_elements))
                     ELSE [report EXCEPT !.total_ui_elements = @ + ui_count]])
    ELSE Only([r \in {CheckScreens(an, report, screens, lo, (lo + hi) \div 2)} |->
             IF r.err # None THEN r ELSE CheckScreens(an, r, screens, (lo + hi) \div 2 + 1, hi)])

\* total_ui_elements is assigned to the report only when every screen passed
check_resource_limits(an, app, report) ==
    IF Len(app.screens) > an.resource_limits.max_screens
    THEN Reject(report, ResourceLimit(M_screens, Len(app.screens),
                                      an.resource_limits.max_screens))
    ELSE Only([r \in {CheckScreens(an, [report EXCEPT !.total_ui_elements = 0], app.screens,
                           1, Len(app.screens))} |->
               IF r.err # None THEN Reject(report, r.err[1]) ELSE r])

RECURSIVE analyze_imports_from(_, _, _, _)
analyze_imports_from(an, imports, i, report) ==
    IF i > Len(imports) THEN report
    ELSE IF imports[i].path \notin an.allowed_imports
         THEN Reject(report, UnsafeImport(imports[i].path))
    ELSE analyze_imports_from(an, imports, i + 1,
                              [report EXCEPT !.required_imports = @ \cup {imports[i].path}])
analyze_imports(an, imports, report) == analyze_imports_from(an, imports, 1, report)

validate_state_access(state_name, report) ==
    IF state_name \in {M_proto, M_constructor, M_prototype, T_eval}
    THEN Reject(report, UnsafeDataAccess(M_Dangerous_state_variable_name_colon \o state_name))
    ELSE report

RECURSIVE analyze_expression(_, _, _, _), AnalyzeArgs(_, _, _, _, _, _)
\* for arg in args[lo..hi] { self.analyze_expression(arg, report, depth)?; }
AnalyzeArgs(an, args, lo, hi, report, depth) ==
    IF lo > hi \/ report.err # None THEN report
    ELSE IF lo = hi THEN analyze_expression(an, args[lo], report, depth)
    ELSE Only([r \in {AnalyzeArgs(an, args, lo, (lo + hi) \div 2, report, depth)} |->
             IF r.err # None THEN r ELSE AnalyzeArgs(an, args, (lo + hi) \div 2 + 1, hi, r, depth)])

\* the Expr variants the parser builds: FunctionCall, Variable, String, and
\* the literals that the analysis lets through
analyze_expression(an, expr, report, depth) ==
    IF depth > an.resource_limits.max_nesting_depth
    THEN Reject(report, ResourceLimit(M_expression_nesting_depth, depth,
                                      an.resource_limits.max_nesting_depth))
    ELSE CASE expr.k = "FunctionCall" ->
                IF expr.name \in an.blocked_functions
                THEN Reject(report, DangerousFunction(expr.name))
                ELSE Only([r \in {AnalyzeArgs(an, expr.args, 1, Len(expr.args), report, depth + 1)} |->
                         IF r.err # None THEN r ELSE
                           Only([r2 \in {[r EXCEPT !.function_calls = @ \cup {expr.name}]} |->
                              IF Cardinality(r2.function_calls)
                                    > an.resource_limits.max_function_calls
                              THEN Reject(r2, ResourceLimit(M_function_calls,
                                              Cardinality(r2.function_calls),
                                              an.resource_limits.max_function_calls))
                              ELSE r2])])
           [] expr.k = "Variable" ->
                validate_state_access(expr.name,
                                      [report EXCEPT !.accessed_state = @ \cup {expr.name}])
           [] expr.k = "String" ->
                IF Len(expr.s) > an.resource_limits.max_string_length
                THEN Reject(report, ResourceLimit(M_string_length, Len(expr.s),
                                                  an.resource_limits.max_string_length))
                ELSE IF contains(expr.s, M_script) \/ contains(expr.s, T_javascript)
                        \/ contains(expr.s, T_eval_call)
                THEN Reject(report,
                            UnsafeDataAccess(M_Potential_code_injection_in_string_liter))
                ELSE report
           [] OTHER -> report

ActionCodePatterns ==
    << <<T_eval_call, M_eval_function>>,
       <<T_exec_call, M_exec_function>>,
       <<M_system_lparen, M_system_call>>,
       <<M_import_lparen, M_dynamic_import>>,
       <<M_open_lparen, M_file_access>>,
       <<M_file_lparen, M_file_access>>,
       <<M_fetch_lparen, M_network_request>>,
       <<M_XMLHttpRequest, M_network_request>>,
       <<M_document_dot, M_DOM_access>>,
       <<M_window_dot, M_global_object_access>>,
       <<M_location_dot, M_location_access>>,
       <<M_setTimeout_lparen, M_timer_function>>,
       <<M_setInterval_lparen, M_timer_function>> >>
SqlPatterns == <<M_DROP, M_DELETE, M_UPDATE, M_INSERT, M_SELECT>>

analyze_action_code(code, report) ==
    Only([hits \in {{i \in 1..Len(ActionCodePatterns) : contains(code, ActionCodePatterns[i][1])}} |->
            IF hits # {}
            THEN Reject(report, DangerousFunction(ActionCodePatterns[SetMin(hits)][2]))
            ELSE Only([upper \in {to_uppercase(code)} |->
                    [report EXCEPT !.security_warnings =
                        @ \o [k \in 1..Cardinality({i \in 1..Len(SqlPatterns) :
                                                      contains(upper, SqlPatterns[i])}) |->
                                M_Potential_SQL_injection_pattern_detected]]])])

RECURSIVE analyze_ui(_, _, _, _), AnalyzeChildren(_, _, _, _, _, _)
\* for child in children[lo..hi] { self.analyze_ui(child, report, depth)?; }
AnalyzeChildren(an, children, lo, hi, report, depth) ==
    IF lo > hi \/ report.err # None THEN report
    ELSE IF lo = hi THEN analyze_ui(an, children[lo], report, depth)
    ELSE Only([r \in {AnalyzeChildren(an, children, lo, (lo + hi) \div 2, report, depth)} |->
             IF r.err # None THEN r ELSE AnalyzeChildren(an, children, (lo + hi) \div 2 + 1, hi, r, depth)])

\* UI::CustomComponent, which the parser never builds, has no case here
analyze_ui(an, ui, report, depth) ==
    IF depth > an.resource_limits.max_nesting_depth
    THEN Reject(report, ResourceLimit(M_UI_nesting_depth, depth,
                                      an.resource_limits.max_nesting_depth))
    ELSE CASE IsContainer(ui) ->
                AnalyzeChildren(an, ui.children, 1, Len(ui.children), report, depth + 1)
           [] ui.k = "Button" /\ ui.action # None ->
                Only([r \in {analyze_action_code(ui.action[1], report)} |-> IF r.err # None THEN r ELSE
                    IF ui.navigate = None THEN r
                    ELSE AnalyzeArgs(an, ui.navigate[1].args, 1, Len(ui.navigate[1].args),
                                     [r EXCEPT !.navigation_targets =
                                                  @ \cup {ui.navigate[1].screen}],
                                     depth)])
           [] ui.k = "Image" ->
                Only([r \in {[report EXCEPT
                        !.security_warnings =
                            IF starts_with(ui.src, T_http)
                            THEN Append(@, M_Insecure_HTTP_image_source_detected) ELSE @,
                        !.external_resources =
                            IF starts_with(ui.src, M_https_colon) THEN @ \cup {ui.src} ELSE @]} |->
                        IF contains(ui.src, T_javascript) \/ contains(ui.src, M_data_colon)
                        THEN Reject(r, UnsafeDataAccess(
                                         M_Dangerous_image_source_scheme_detected))
                        ELSE [r EXCEPT !.required_permissions =
                                          @ \cup {M_READ_EXTERNAL_STORAGE}]])
           [] ui.k = "Input" ->
                Only([label_lower \in {to_lowercase(ui.label)} |->
                    validate_state_access(ui.binding,
                        [report EXCEPT
                            !.accessed_state = @ \cup {ui.binding},
                            !.sensitive_inputs =
                                IF contains(label_lower, M_password)
                                   \/ contains(label_lower, M_secret)
                                THEN @ \cup {ui.binding} ELSE @])])
           [] ui.k = "List" ->
                CHOOSE out \in
                    { IF r.err # None THEN r
                      ELSE validate_state_access(ui.items,
                               [r EXCEPT !.accessed_state = @ \cup {ui.items}]) :
                      r \in {analyze_ui(an, ui.child, report, depth + 1)} } : TRUE
           [] ui.k = "Conditional" ->
                CHOOSE out \in
                    { IF r1.err # None THEN r1
                      ELSE CHOOSE then_done \in
                             { IF r2.err # None \/ ui.else_branch = None THEN r2
                               ELSE analyze_ui(an, ui.else_branch[1], r2, depth + 1) :
                               r2 \in {analyze_ui(an, ui.then_branch, r1, depth + 1)} } : TRUE :
                      r1 \in {analyze_expression(an, ui.condition, report, depth)} } : TRUE
           [] ui.k \in {"Label", "Title"} ->
                IF Len(ui.content) > an.resource_limits.max_string_length
                THEN Reject(report, ResourceLimit(M_string_length, Len(ui.content),
                                                  an.resource_limits.max_string_length))
                ELSE IF contains(ui.content, M_script) \/ contains(ui.content, T_javascript)
                THEN Reject(report, UnsafeDataAccess(
                                      M_Script_injection_attempt_detected_in_tex))
                ELSE report
           [] OTHER -> report

\* for action in actions[i..] { self.analyze_action_code(&action.code, report)?; }
RECURSIVE AnalyzeActions(_, _, _)
AnalyzeActions(actions, i, report) ==
    IF i > Len(actions) \/ report.err # None THEN report
    ELSE Only([r \in {analyze_action_code(actions[i].code, report)} |->
             IF r.err # None THEN r ELSE AnalyzeActions(actions, i + 1, r)])

analyze_screen(an, screen, report) ==
    Only([r1 \in {AnalyzeArgs(an, [i \in 1..Len(screen.state) |-> screen.state[i].value],
                   1, Len(screen.state), report, 0)} |-> IF r1.err # None THEN r1 ELSE
    Only([r2 \in {analyze_ui(an, screen.ui, r1, 0)} |-> IF r2.err # None THEN r2 ELSE
        AnalyzeActions(screen.actions, 1, r2)])])

\* for screen in screens[lo..hi] { self.analyze_screen(screen, report)?; }
RECURSIVE AnalyzeScreens(_, _, _, _, _)
AnalyzeScreens(an, screens, lo, hi, report) ==
    IF lo > hi \/ report.err # None THEN report
    ELSE IF lo = hi THEN analyze_screen(an, screens[lo], report)
    ELSE Only([r \in {AnalyzeScreens(an, screens, lo, (lo + hi) \div 2, report)} |->
             IF r.err # None THEN r ELSE AnalyzeScreens(an, screens, (lo + hi) \div 2 + 1, hi, r)])

\* the arm for the other UI elements lies past the end of the source: each
\* counts 1, as in count_ui_elements
RECURSIVE calculate_ui_complexity(_)
calculate_ui_complexity(ui) ==
    CASE IsContainer(ui) ->
            1 + SumRange([i \in 1..Len(ui.children) |->
                             calculate_ui_complexity(ui.children[i])],
                         1, Len(ui.children))
      [] ui.k = "List" -> 2 + calculate_ui_complexity(ui.child)
      [] ui.k = "Conditional" ->
            3 + calculate_ui_complexity(ui.then_branch)
              + (IF ui.else_branch # None
                 THEN calculate_ui_complexity(ui.else_branch[1]) ELSE 0)
      [] OTHER -> 1

calculate_complexity(app) ==
    Len(app.screens) + Len(app.imports) * 2 + Len(app.data_models) * 3
    + SumOver([i \in 1..Len(app.screens) |->
                  Len(app.screens[i].state) + Len(app.screens[i].actions) * 2
                  + calculate_ui_complexity(app.screens[i].ui)])

\* calculate_risk_level lies past the end of the source: the risk the
\* specification gives for a report's resources and warnings
calculate_risk_level(report) == risk_of(report.external_resources, report.security_warnings)
get_risk_level(report) == report.risk_level

\* Result<SecurityReport, SecurityError>: the report, with err set on failure
analyze_app(an, app) ==
    Only([r1 \in {check_resource_limits(an, app, AnalysisReport_default)} |-> IF r1.err # None THEN r1 ELSE
    Only([r2 \in {analyze_imports(an, app.imports, r1)} |-> IF r2.err # None THEN r2 ELSE
    Only([r3 \in {AnalyzeScreens(an, app.screens, 1, Len(app.screens), r2)} |-> IF r3.err # None THEN r3 ELSE
    Only([complexity \in {calculate_complexity(app)} |->
        IF complexity > an.max_complexity THEN Reject(r3, ComplexityLimit(complexity))
        ELSE Only([r4 \in {[r3 EXCEPT !.complexity_score = complexity]} |->
                [r4 EXCEPT !.risk_level = calculate_risk_level(r4)]])])])])])

---------------------------------------------------------------------------
(* lib.rs: compile_with_security, parse_source_safe *)

\* the characters the programs are written in, in the order of their codes
Ascii ==
    <<"\n", " ", "!", "\"", "#", "$", "%", "&", "'", "(", ")", "*", "+", ",", "-", ".", "/",
      "0", "1", "2", "3", "4", "5", "6", "7", "8", "9", ":", ";", "<", "=", ">", "?", "@",
      "A", "B", "C", "D", "E", "F", "G", "H", "I", "J", "K", "L", "M",
      "N", "O", "P", "Q", "R", "S", "T", "U", "V", "W", "X", "Y", "Z",
      "[", "\\", "]", "^", "_",
      "a", "b", "c", "d", "e", "f", "g", "h", "i", "j", "k", "l", "m",
      "n", "o", "p", "q", "r", "s", "t", "u", "v", "w", "x", "y", "z",
      "{", "|", "}", "~">>
CharCode(c) == CHOOSE i \in 1..Len(Ascii) : Ascii[i] = c

\* a < b for Strings: lexicographic by character code
StrLess(a, b) ==
    \E i \in 1..(Min(Len(a), Len(b)) + 1) :
        /\ \A j \in 1..(i - 1) : a[j] = b[j]
        /\ \/ i > Len(a) /\ i <= Len(b)
           \/ i <= Len(a) /\ i <= Len(b) /\ CharCode(a[i]) < CharCode(b[i])

\* Vec<String>::sort(): the k-th place holds the string with fewer than k
\* strings below it and at least k strings not above it
sort(v) ==
    [k \in 1..Len(v) |->
        CHOOSE x \in {v[i] : i \in 1..Len(v)} :
            /\ Cardinality({i \in 1..Len(v) : StrLess(v[i], x)}) < k
            /\ k <= Cardinality({i \in 1..Len(v) : StrLess(v[i], x) \/ v[i] = x})]

\* Vec::dedup(): drops every element equal to the one before it
dedup(v) ==
    Only([kept \in {Ascending({i \in 1..Len(v) : i = 1 \/ v[i] # v[i - 1]})} |->
            [k \in 1..Len(kept) |-> v[kept[k]]]])

\* the navigation targets of the buttons anywhere in a UI tree, as a set
RECURSIVE NavigationTargets(_)
NavigationTargets(ui) ==
    CASE ui.k = "Button" /\ ui.navigate # None -> {ui.navigate[1].screen}
      [] IsContainer(ui) ->
            UNION {NavigationTargets(ui.children[i]) : i \in 1..Len(ui.children)}
      [] ui.k = "List" -> NavigationTargets(ui.child)
      [] ui.k = "Conditional" ->
            NavigationTargets(ui.then_branch)
            \cup (IF ui.else_branch # None THEN NavigationTargets(ui.else_branch[1]) ELSE {})
      [] OTHER -> {}

\* if let Some(found) = .. { targets.extend(found) }: what the Vec is extended by
Extension(found) == IF found = None THEN <<>> ELSE found[1]

\* Option<Vec<String>>: the targets in the order pushed, None when there is none
RECURSIVE find_navigation_targets(_)
find_navigation_targets(ui) ==
    Only([targets \in {
            CASE ui.k = "Button" /\ ui.navigate # None -> <<ui.navigate[1].screen>>
              [] IsContainer(ui) ->
                    Flatten([i \in 1..Len(ui.children) |->
                                Extension(find_navigation_targets(ui.children[i]))])
              [] ui.k = "List" -> Extension(find_navigation_targets(ui.child))
              [] ui.k = "Conditional" ->
                    Extension(find_navigation_targets(ui.then_branch))
                    \o (IF ui.else_branch # None
                        THEN Extension(find_navigation_targets(ui.else_branch[1]))
                        ELSE <<>>)
              [] OTHER -> <<>>} |->
        IF targets = <<>> THEN None ELSE Some(targets)])

extract_entry_points(ast) ==
    dedup(sort(<<ast.start_screen>>
               \o Flatten([i \in 1..Len(ast.screens) |->
                              Extension(find_navigation_targets(ast.screens[i].ui))])))

RECURSIVE analyze_ui_permissions(_)
analyze_ui_permissions(ui) ==
    CASE ui.k = "Image" -> {M_READ_EXTERNAL_STORAGE}
      [] ui.k = "Button" /\ ui.action # None ->
            (IF contains(ui.action[1], M_camera) THEN {M_CAMERA} ELSE {})
            \cup (IF contains(ui.action[1], M_location)
                  THEN {M_ACCESS_FINE_LOCATION} ELSE {})
            \cup (IF contains(ui.action[1], M_notification)
                  THEN {M_POST_NOTIFICATIONS} ELSE {})
      [] IsContainer(ui) ->
            UNION {analyze_ui_permissions(ui.children[i]) : i \in 1..Len(ui.children)}
      [] ui.k = "List" -> analyze_ui_permissions(ui.child)
      [] ui.k = "Conditional" ->
            analyze_ui_permissions(ui.then_branch)
            \cup (IF ui.else_branch # None
                  THEN analyze_ui_permissions(ui.else_branch[1]) ELSE {})
      [] OTHER -> {}

\* the permissions as a set: the Vec collects a HashSet in no fixed order
extract_permissions(ast) ==
    UNION {analyze_ui_permissions(ast.screens[i].ui) : i \in 1..Len(ast.screens)}

(* What a call of compile_with_security comes to: Err(SproutError), a panic,
   a parser loop that never ends, or Ok(CompileResult).  Of CompileResult the
   bytes of the module and what is computed from them and from the clock
   (wasm, size, checksum, compilation_time) are left out. *)
CompileFailure(errors, security_report) ==
    [kind |-> "Ok", success |-> FALSE, errors |-> errors, warnings |-> <<>>,
     permissions |-> {}, entry_points |-> <<>>, security_report |-> security_report]

compile_with_security(source, security_level) ==
    Only([checked \in {validate_source_code(source, security_level)} |->
        IF checked.r = "Err" THEN [kind |-> "Err", err |-> checked.err]
        ELSE Only([parsed \in {parse(source)} |->
            CASE parsed.r = "Panic" -> [kind |-> "Panic", msg |-> parsed.msg]
              [] parsed.r = "Hang" -> [kind |-> "Hang"]
              [] parsed.r = "Err" ->
                    CompileFailure(<<M_Parse_error_colon \o ParseError_to_string(parsed.err)>>,
                                   checked.v)
              [] parsed.r = "Ok" ->
                    Only([ast_report \in {analyze_app(SecurityAnalyzer_default, parsed.v)} |->
                        IF ast_report.err # None
                        THEN CompileFailure(
                                <<M_Security_analysis_failed_colon
                                    \o SecurityError_to_string(ast_report.err[1])>>,
                                checked.v)
                        ELSE Only([security_report \in {[checked.v EXCEPT
                                     !.required_permissions = @ \cup ast_report.required_permissions,
                                     !.external_resources = @ \cup ast_report.external_resources,
                                     !.navigation_targets = @ \cup ast_report.navigation_targets,
                                     !.function_calls = @ \cup ast_report.function_calls,
                                     !.risk_level = IF get_risk_level(ast_report) = "High"
                                                    THEN "High" ELSE @]} |->
                                     [kind |-> "Ok", success |-> TRUE, errors |-> <<>>,
                                      warnings |-> security_report.security_warnings,
                                      permissions |-> extract_permissions(parsed.v),
                                      entry_points |-> extract_entry_points(parsed.v),
                                      security_report |-> security_report]])])])])

\* Ok(ParseResult), a panic or a parser loop that never ends
parse_source_safe(source, security_level) ==
    Only([checked \in {validate_source_code(source, security_level)} |->
        IF checked.r = "Err"
        THEN [kind |-> "Ok", success |-> FALSE, ast |-> None,
              errors |-> <<SproutError_to_string(checked.err)>>, warnings |-> <<>>,
              security_report |-> None]
        ELSE Only([parsed \in {parse(source)} |->
            CASE parsed.r = "Panic" -> [kind |-> "Panic", msg |-> parsed.msg]
              [] parsed.r = "Hang" -> [kind |-> "Hang"]
              [] parsed.r = "Err" ->
                    [kind |-> "Ok", success |-> FALSE, ast |-> None,
                     errors |-> <<M_Parse_error_colon \o ParseError_to_string(parsed.err)>>,
                     warnings |-> <<>>, security_report |-> Some(checked.v)]
              [] parsed.r = "Ok" ->
                    [kind |-> "Ok", success |-> TRUE, ast |-> Some(parsed.v),
                     errors |-> <<>>, warnings |-> checked.v.security_warnings,
                     security_report |-> Some(checked.v)]])])

---------------------------------------------------------------------------
(* enhanced_parser.rs: parse with reference validation *)

ScreenNames(app) == {app.screens[i].name : i \in 1..Len(app.screens)}
StateNames(screen) == {screen.state[i].name : i \in 1..Len(screen.state)}

RECURSIVE validate_ui(_, _, _)
validate_ui(ui, screen, app) ==
    CASE ui.k = "Button" /\ ui.navigate # None ->
            IF ui.navigate[1].screen \notin ScreenNames(app) /\ ui.navigate[1].screen # M_Back
            THEN Err(UndefinedReference(M_Target_screen \o ui.navigate[1].screen
                                            \o M_not_defined))
            ELSE Ok
      [] ui.k = "List" ->
            IF ui.items \notin StateNames(screen)
            THEN Err(UndefinedReference(M_List_items \o ui.items \o M_not_defined))
            ELSE Ok
      [] ui.k = "Binding" ->
            IF ui.variable \notin StateNames(screen)
            THEN Err(UndefinedReference(M_Bound_variable \o ui.variable
                                            \o M_not_defined))
            ELSE Ok
      [] IsContainer(ui) ->
            FirstErr([i \in 1..Len(ui.children) |-> validate_ui(ui.children[i], screen, app)])
      [] ui.k = "Conditional" ->
            Only([first \in {validate_ui(ui.then_branch, screen, app)} |->
                IF first # Ok THEN first
                ELSE IF ui.else_branch # None THEN validate_ui(ui.else_branch[1], screen, app)
                ELSE Ok])
      [] OTHER -> Ok

validate_screen(screen, app) ==
    Only([repeated \in {{i \in 1..Len(screen.state) :
            \E j \in 1..(i - 1) : screen.state[j].name = screen.state[i].name}} |->
            IF repeated # {}
            THEN Err(DuplicateDefinition(M_State \o screen.state[SetMin(repeated)].name
                                             \o M_defined_multiple_times))
            ELSE validate_ui(screen.ui, screen, app)])

validate_app(app) ==
    IF app.start_screen \notin ScreenNames(app)
    THEN Err(UndefinedReference(M_Start_screen \o app.start_screen \o M_not_defined))
    ELSE FirstErr([i \in 1..Len(app.screens) |-> validate_screen(app.screens[i], app)])

\* enhanced_parser::parse(source)
enhanced_parse(source) ==
    Only([toks \in {tokenize(source)} |->
        Only([app \in {ParseTokens(toks)} |-> IF app.r # "Ok" THEN app ELSE
            Only([valid \in {validate_app(app.v)} |->
                IF valid # Ok THEN PErr(valid[1]) ELSE POk(app.v, app.pos)])])])

---------------------------------------------------------------------------
(* Words of the programs *)

W_line_break == <<"\n", " ", " ", " ", " ">>
W_newline == <<"\n">>
W_Go == <<"G", "o">>
W_Missing == <<"M", "i", "s", "s", "i", "n", "g">>
W_Hello_World == <<"H", "e", "l", "l", "o", " ", "W", "o", "r", "l", "d">>
W_Hi == <<" ", "H", "i", " ">>
W_http_colon_x_dot_io == <<"h", "t", "t", "p", ":", "/", "/", "x", ".", "i", "o">>
W_a_dot_png == <<"a", ".", "p", "n", "g">>
W_Name == <<"N", "a", "m", "e">>
W_binding_colon == <<"b", "i", "n", "d", "i", "n", "g", ":">>
W_items == <<"i", "t", "e", "m", "s">>
W_Evil == <<"E", "v", "i", "l">>
W_Up == <<"U", "p">>
W_rows == <<"r", "o", "w", "s">>
W_Bye == <<"B", "y", "e">>
W_0 == <<"0">>
W_My_App == <<"M", "y", " ", "A", "p", "p">>
W_message == <<"m", "e", "s", "s", "a", "g", "e">>
W_This_is_a_test == <<"T", "h", "i", "s", " ", "i", "s", " ", "a", " ", "t", "e", "s", "t">>
W_Nowhere == <<"N", "o", "w", "h", "e", "r", "e">>
W_blank == <<" ", "\n", " ">>
W_v == <<"v">>
W_1 == <<"1">>
W_S == <<"S">>
W_drop == <<"d", "r", "o", "p">>
W_Profile == <<"P", "r", "o", "f", "i", "l", "e">>
W_userId == <<"u", "s", "e", "r", "I", "d">>
W_user123 == <<"u", "s", "e", "r", "1", "2", "3">>
W_delete == <<"d", "e", "l", "e", "t", "e">>
W_update == <<"u", "p", "d", "a", "t", "e">>
W_insert == <<"i", "n", "s", "e", "r", "t">>

---------------------------------------------------------------------------
(* Programs the compiler is given *)

\* a string literal of the language
Q(s) == T_quote \o s \o T_quote
\* a source text: the words with one separator between each two
Joined(ws, sep) ==
    Concat([i \in 1..(2 * Len(ws) - 1) |-> IF i % 2 = 1 THEN ws[(i + 1) \div 2] ELSE sep],
           1, 2 * Len(ws) - 1)
Words(ws) == Joined(ws, K_space)
\* the layout of the tests' raw strings: a line and its indentation per word
Lines(ws) == W_line_break \o Joined(ws, W_line_break) \o W_newline

SrcApp(name, start) == <<K_app, Q(name), K_lbrace, K_start, K_eq, start, K_rbrace>>
SrcState(name, value) == <<K_state, name, K_eq, value>>
SrcScreen(name, state, ui) ==
    <<K_screen, name, K_lbrace>> \o state \o <<K_ui, K_lbrace>> \o ui \o <<K_rbrace, K_rbrace>>
SrcLabel(text) == <<K_label, Q(text)>>
SrcButton(label, body) == <<K_button, Q(label), K_lbrace>> \o body \o <<K_rbrace>>
SrcNavigate(label, target) == SrcButton(label, <<K_arrow, target>>)
SrcBlock(kind, children) == <<kind, K_lbrace>> \o children \o <<K_rbrace>>
SrcList(items, child) == <<K_list, items, K_lbrace>> \o child \o <<K_rbrace>>
SrcIf(condition, then_branch) == <<K_if, condition, K_lbrace>> \o then_branch \o <<K_rbrace>>
SrcIfElse(condition, then_branch, else_branch) ==
    SrcIf(condition, then_branch) \o <<K_else, K_lbrace>> \o else_branch \o <<K_rbrace>>

EvalCall == T_eval_call \o Q(N_x) \o K_rparen
ToMissing == SrcNavigate(W_Go, W_Missing)

\* UI trees in source form
UiSources ==
    { SrcLabel(X_Hello),
      SrcLabel(W_Hello_World),
      SrcLabel(M_system),
      SrcLabel(T_exec),
      SrcLabel(W_Hi),
      SrcLabel(W_http_colon_x_dot_io),
      <<K_image, Q(W_a_dot_png)>>,
      <<K_input, Q(W_Name), W_binding_colon, W_items>>,
      <<K_input, Q(W_Name), W_binding_colon, W_rows>>,
      SrcNavigate(W_Go, N_Settings),
      SrcNavigate(W_Go, M_Back),
      ToMissing,
      SrcButton(W_Evil, <<EvalCall>>),
      SrcButton(W_Go, <<W_drop, W_delete, W_update, W_insert, N_x>>),
      SrcBlock(K_column, SrcNavigate(W_Go, N_Settings) \o SrcNavigate(W_Up, N_Home)),
      SrcBlock(K_column, SrcLabel(X_Hello) \o ToMissing),
      SrcBlock(K_row, SrcBlock(K_stack, ToMissing)),
      SrcList(W_items, SrcLabel(X_Hello)),
      SrcList(W_rows, SrcLabel(X_Hello)),
      SrcList(W_items, ToMissing),
      SrcList(W_items, SrcList(W_rows, SrcLabel(X_Hello))),
      SrcBlock(K_column, SrcList(W_items, SrcBlock(K_row, ToMissing))),
      SrcIf(T_true, ToMissing),
      SrcIfElse(T_true, SrcLabel(X_Hello), ToMissing),
      SrcIfElse(T_true, SrcLabel(X_Hello), SrcLabel(W_Bye)) }

\* an app of two screens, Home showing the given UI over one state variable
TwoScreens(ui) ==
    Words(SrcApp(N_Test, N_Home)
          \o SrcScreen(N_Home, SrcState(W_items, W_0), ui)
          \o SrcScreen(N_Settings, <<>>, SrcLabel(X_Hello)))

\* an app of the one screen Home whose UI is a single label
OneLabel(name, start, text) ==
    SrcApp(name, start) \o SrcScreen(N_Home, <<>>, SrcLabel(text))

\* app "Test" { start="Home" } screen Home { ui { label "Hello World" } }
HelloWorldApp ==
    Words(<<K_app, Q(N_Test), K_lbrace, K_start \o K_eq \o Q(N_Home), K_rbrace>>
          \o SrcScreen(N_Home, <<>>, SrcLabel(W_Hello_World)))

\* the source of test_string_literal_preservation
MyAppWords ==
    SrcApp(W_My_App, N_Home)
    \o SrcScreen(N_Home, SrcState(W_message, Q(W_Hello_World)),
                 SrcLabel(W_This_is_a_test))

\* the program of test_navigation with labels of one word: Home leads to
\* Settings and to Profile("user123"), each of which leads back to Home
NavApp(start) ==
    Words(SrcApp(N_Test, start)
          \o SrcScreen(N_Home, <<>>,
                SrcBlock(K_column,
                    SrcNavigate(W_Go, N_Settings)
                    \o SrcNavigate(W_Up, W_Profile \o K_lparen \o Q(W_user123) \o K_rparen)))
          \o SrcScreen(N_Settings, <<>>, SrcNavigate(M_Back, N_Home))
          \o <<K_screen, W_Profile \o K_lparen \o W_userId \o K_colon, K_String \o K_rparen,
               K_lbrace, K_ui, K_lbrace>>
          \o SrcNavigate(M_Back, N_Home) \o <<K_rbrace, K_rbrace>>)
NavSources == {NavApp(N_Home), NavApp(Q(N_Home))}

OneScreenSources ==
    {Words(OneLabel(N_Test, start, text)) :
        start \in {N_Home, Q(N_Home), W_Nowhere}, text \in {X_Hello, W_Hello_World}}
    \cup {HelloWorldApp, Words(MyAppWords), Lines(MyAppWords),
          Lines(OneLabel(N_Test, N_Home, X_Hello)),
          Words(OneLabel(M_system, N_Home, X_Hello))}

OtherSources ==
    { <<>>,
      W_blank,
      \* a word after the ui block that starts no action
      Words(SrcApp(N_Test, N_Home)
            \o <<K_screen, N_Home, K_lbrace, K_ui, K_lbrace>> \o SrcLabel(X_Hello)
            \o <<K_rbrace, K_label, K_rbrace>>),
      \* a state variable initialised by a call of a blocked function
      Words(SrcApp(N_Test, N_Home)
            \o SrcScreen(N_Home, SrcState(W_v, T_eval_call \o W_1 \o K_rparen),
                         SrcLabel(X_Hello))),
      \* the same state variable declared twice
      Words(SrcApp(N_Test, N_Home)
            \o SrcScreen(N_Home, SrcState(W_items, W_0) \o SrcState(W_items, W_1),
                         SrcLabel(X_Hello))),
      \* no screen at all
      Words(SrcApp(N_Test, N_Home)) }

Sources ==
    {TwoScreens(ui) : ui \in UiSources} \cup OneScreenSources \cup NavSources \cup OtherSources

SecurityLevels == {"Strict", "Moderate", "Permissive"}

---------------------------------------------------------------------------
(* Programs as the parser would hand them to the analyzer *)

MaxScreenCount == 52

ScreenName(i) == W_S \o NatStr(i)
\* n screens, each with no state, no action and a single label
MinimalApp(n) ==
    [App_new(N_Test, ScreenName(1)) EXCEPT
        !.screens = [i \in 1..n |-> ScreenDecl(ScreenName(i), <<>>, <<>>,
                                               UI_Label(X_Hello), <<>>)]]

Analyzers == {SecurityAnalyzer_default} \cup {new_with_level(level) : level \in SecurityLevels}

---------------------------------------------------------------------------
(* Specification of the compiler: one call per behaviour *)

CompileRequests ==
    {[op |-> "compile_with_security", source |-> source, security_level |-> level] :
        source \in Sources, level \in SecurityLevels}
    \cup {[op |-> op, source |-> source] :
            op \in {"parse", "enhanced_parse"}, source \in Sources}

InitCompile ==
    /\ runtime = WasmRuntime_new(RuntimeOptions_default)
    /\ result = NoResult
    /\ call = NoCall
    /\ runs = 0
    /\ overflow_checks = TRUE
    /\ creq \in CompileRequests
    /\ cres = CompileIdle
    /\ areq = AnalyzeIdle
    /\ ares = AnalyzeIdle

CompileWithSecurity ==
    /\ cres = CompileIdle
    /\ creq.op = "compile_with_security"
    /\ \E done \in {compile_with_security(creq.source, creq.security_level)} : cres' = done
    /\ UNCHANGED <<runtime, result, call, runs, overflow_checks, creq, areq, ares>>

\* parser::parse
Parse ==
    /\ cres = CompileIdle
    /\ creq.op = "parse"
    /\ \E done \in {parse(creq.source)} : cres' = done
    /\ UNCHANGED <<runtime, result, call, runs, overflow_checks, creq, areq, ares>>

\* enhanced_parser::parse
EnhancedParse ==
    /\ cres = CompileIdle
    /\ creq.op = "enhanced_parse"
    /\ \E done \in {enhanced_parse(creq.source)} : cres' = done
    /\ UNCHANGED <<runtime, result, call, runs, overflow_checks, creq, areq, ares>>

NextCompile == CompileWithSecurity \/ Parse \/ EnhancedParse
SpecCompile == InitCompile /\ [][NextCompile]_vars

---------------------------------------------------------------------------
(* Specification of the analyzer: one analysis per behaviour *)

InitAnalyze ==
    /\ runtime = WasmRuntime_new(RuntimeOptions_default)
    /\ result = NoResult
    /\ call = NoCall
    /\ runs = 0
    /\ overflow_checks = TRUE
    /\ creq = CompileIdle
    /\ cres = CompileIdle
    /\ areq \in {[analyzer |-> an, screens |-> n] : an \in Analyzers, n \in 0..MaxScreenCount}
    /\ ares = AnalyzeIdle

AnalyzeApp ==
    /\ ares = AnalyzeIdle
    /\ \E done \in {analyze_app(areq.analyzer, MinimalApp(areq.screens))} : ares' = done
    /\ UNCHANGED <<runtime, result, call, runs, overflow_checks, creq, cres, areq>>

NextAnalyze == AnalyzeApp
SpecAnalyze == InitAnalyze /\ [][NextAnalyze]_vars

---------------------------------------------------------------------------
(* Specification of the analyzer on nested UI trees: one analysis per tree *)

MaxNesting == 27
Shapes == {"Column", "List", "Then", "Else", "Mixed"}

\* a label under d nested nodes of one kind (or of the three kinds in turn)
RECURSIVE Nested(_, _)
Nested(shape, d) ==
    IF d = 0 THEN UI_Label(X_Hello)
    ELSE CASE shape = "Column" \/ (shape = "Mixed" /\ d % 3 = 0) ->
                UI_Column(<<Nested(shape, d - 1)>>)
           [] shape = "List" \/ (shape = "Mixed" /\ d % 3 = 1) ->
                UI_List(W_items, Nested(shape, d - 1))
           [] shape = "Then" \/ (shape = "Mixed" /\ d % 3 = 2) ->
                UI_Conditional(Expr_Boolean(TRUE), Nested(shape, d - 1), None)
           [] shape = "Else" ->
                UI_Conditional(Expr_Boolean(TRUE), UI_Label(X_Hello),
                               Some(Nested(shape, d - 1)))

NestedApp(shape, d) ==
    [App_new(N_Test, N_Home) EXCEPT
        !.screens = <<ScreenDecl(N_Home, <<>>, <<>>, Nested(shape, d), <<>>)>>]

InitNesting ==
    /\ runtime = WasmRuntime_new(RuntimeOptions_default)
    /\ result = NoResult
    /\ call = NoCall
    /\ runs = 0
    /\ overflow_checks = TRUE
    /\ creq = CompileIdle
    /\ cres = CompileIdle
    /\ areq \in {[op |-> "nesting", level |-> level, app |-> NestedApp(shape, d)] :
                    level \in SecurityLevels, shape \in Shapes, d \in 0..MaxNesting}
    /\ ares = AnalyzeIdle

\* SecurityAnalyzer::new_with_level(level).analyze_app(&app)
AnalyzeNested ==
    /\ ares = AnalyzeIdle
    /\ \E done \in {analyze_app(new_with_level(areq.level), areq.app)} : ares' = done
    /\ UNCHANGED <<runtime, result, call, runs, overflow_checks, creq, cres, areq>>

NextNesting == AnalyzeNested
SpecNesting == InitNesting /\ [][NextNesting]_vars

---------------------------------------------------------------------------
(* Specification of the passes: analysis and reference validation, any
   number of times in any order, over one analyzer and one parsed App *)

\* passes per behaviour
MaxPasses == 4

\* the programs of the catalogue that parser::parse returns
ParsedApps ==
    {parsed.v : parsed \in {p \in {parse(source) : source \in Sources} : p.r = "Ok"}}

\* an App whose analysis would differ if a pass had taken its screens away
AppDrained(held) ==
    [analyzer |-> held.analyzer, app |-> [held.app EXCEPT !.screens = <<>>],
     out |-> analyze_app(held.analyzer, held.app)]

\* analyzer.analyze_app(&app): the analyzer (&self) and the App (&App) as the
\* call leaves them, and what it returned
AnalyzePass(held) ==
    [analyzer |-> held.analyzer, app |-> held.app,
     out |-> analyze_app(held.analyzer, held.app)]

\* validate_app(&app, ..): the App as the call leaves it, and what it returned
ValidatePass(held) ==
    [analyzer |-> held.analyzer, app |-> held.app, out |-> validate_app(held.app)]

InitPasses ==
    /\ runtime = WasmRuntime_new(RuntimeOptions_default)
    /\ result = NoResult
    /\ call = NoCall
    /\ runs = 0
    /\ overflow_checks = TRUE
    /\ creq = CompileIdle
    /\ cres = CompileIdle
    /\ areq \in {[op |-> "passes", analyzer |-> an, app |-> app, parsed |-> app] :
                    an \in Analyzers, app \in ParsedApps}
    /\ ares = [op |-> "passes", analyses |-> <<>>, validations |-> <<>>, order |-> <<>>]

Analyze ==
    /\ Len(ares.order) < MaxPasses
    /\ \E done \in {AnalyzePass(areq)} :
          /\ areq' = [areq EXCEPT !.analyzer = done.analyzer, !.app = done.app]
          /\ ares' = [ares EXCEPT !.analyses = Append(@, done.out),
                                  !.order = Append(@, "analyze")]
    /\ UNCHANGED <<runtime, result, call, runs, overflow_checks, creq, cres>>

Validate ==
    /\ Len(ares.order) < MaxPasses
    /\ \E done \in {ValidatePass(areq)} :
          /\ areq' = [areq EXCEPT !.analyzer = done.analyzer, !.app = done.app]
          /\ ares' = [ares EXCEPT !.validations = Append(@, done.out),
                                  !.order = Append(@, "validate")]
    /\ UNCHANGED <<runtime, result, call, runs, overflow_checks, creq, cres>>

NextPasses == Analyze \/ Validate
SpecPasses == InitPasses /\ [][NextPasses]_vars

---------------------------------------------------------------------------
(* Properties of the interpreter *)

\* the call that has just returned ran an action
RanAnAction ==
    /\ call.via \in {"execute", "execute_sprout_app"}
    /\ \E i \in 1..Len(call.at_return.execution_log) :
          call.at_return.execution_log[i].e = "ActionExecuted"

\* C1: one execution of a Loop action whose range text yields two integer
\* endpoints runs its body at most 100 times, whatever the distance between
\* the endpoints.
C1_LoopBodyRunsAtMost100 ==
    call.via = "execute_sprout_app" =>
        \A i \in 1..Len(call.at_return.g_loops) :
            call.at_return.g_loops[i] <= MAX_LOOP_ITERATIONS

\* C7: with count = 0 in the state, executing `count = count + 1` leaves count
\* equal to the number 0, and the run neither fails nor crashes.
C7_UnsupportedArithmeticLeavesCount ==
    ( /\ call.via = "execute"
      /\ call.app.state = <<StateVariable(N_count, VNumber(0))>>
      /\ call.start_screen = N_Home
      /\ Len(call.app.screens) = 1
      /\ call.app.screens[1].ui = <<Button(X_abc, A_inc)>>
      /\ call.elapsed = 0
      /\ call.before.options = RuntimeOptions_default )
    => /\ result.kind = "Ok"
       /\ N_count \in DOMAIN runtime.state
       /\ runtime.state[N_count].t = "Number"
       /\ runtime.state[N_count].v = 0

\* C8: when an action fails during execution, the result execute returns
\* still carries the state snapshot and the event trace accumulated up to the
\* failure.
C8_FailureCarriesPartialState ==
    (RanAnAction /\ Failed(call.at_return) /\ ~call.at_return.panicked)
    => /\ "final_state" \in DOMAIN result
       /\ result.final_state = call.at_return.state
       /\ "events" \in DOMAIN result
       /\ result.events = call.at_return.execution_log

\* the app of test_execute_simple_app and test_memory_limit: no screen, no state
EmptyApp == App(N_Test, N_Home, <<>>, <<>>)

\* C14: executing an app that declares no screen and no state from the entry
\* screen Home returns Ok, under the default options and under a memory
\* ceiling of 100 bytes
C14_EmptyAppRuns ==
    (call.via = "execute" /\ call.app = EmptyApp /\ call.start_screen = N_Home
        /\ call.elapsed = 0)
    => result.kind = "Ok"

\* C16: once the memory counter exceeds max_memory, or the elapsed time
\* max_execution_time, the run ends as memory-exceeded or timeout at the
\* check after the UI element in progress: no UI element of the screen starts
\* with the counter above the ceiling, and such a run does not return Ok
C16_BudgetEndsTheRun ==
    call.via = "execute"
    => /\ \A i \in 1..Len(call.at_return.g_starts) :
             call.at_return.g_starts[i] <= call.before.options.max_memory
       /\ ( \/ call.at_return.memory_usage > call.before.options.max_memory
            \/ call.elapsed > call.before.options.max_execution_time )
          => result.kind # "Ok"

\* C17: once an action or a UI element of the entry screen has failed, the
\* run executes no further UI element, action, loop iteration or loop-body
\* action and writes no further state: what the runtime holds at the return
\* of execute is what it held when the error arose
C17_FailureEndsTheRun ==
    (call.via = "execute" /\ Failed(call.at_return))
    => Snapshot(call.at_return) = call.at_return.g_failure[1]

\* the screen that execute runs: the first one named start_screen
EntryScreen == call.app.screens[SetMin({i \in 1..Len(call.app.screens) :
                                          call.app.screens[i].name = call.start_screen})]

\* the events at positions from + 1 .. from + Len(decls) of the log are the
\* writes of the declarations decls, in their order
SeededAt(log, from, decls) ==
    /\ Len(log) >= from + Len(decls)
    /\ \A i \in 1..Len(decls) :
          log[from + i] = StateUpdated(decls[i].name, decls[i].value)

\* a success of execute went through every step, in the order of the code
SuccessMeansEveryStepPassed ==
    (call.via = "execute" /\ result.kind = "Ok")
    => /\ App_validate(call.app) = Ok
       /\ SeededAt(call.at_return.execution_log, 0, call.app.state)
       /\ \E i \in 1..Len(call.app.screens) : call.app.screens[i].name = call.start_screen
       /\ Screen_validate(EntryScreen) = Ok
       /\ call.at_return.execution_log[Len(call.app.state) + 1] = ScreenLoaded(call.start_screen)
       /\ SeededAt(call.at_return.execution_log, Len(call.app.state) + 1, EntryScreen.state)
       /\ Len(call.at_return.g_starts) = Len(EntryScreen.ui)
       /\ ~Failed(call.at_return)
       /\ call.at_return.memory_usage <= call.at_return.options.max_memory
       /\ call.elapsed <= call.at_return.options.max_execution_time

\* C18: a call of execute returns success only if the app was validated, the
\* top-level state was written, the entry screen was found and validated, its
\* local state was written, every UI element ran in order without error and
\* the final memory counter and elapsed time are within the ceilings; every
\* other call ends in exactly one failure outcome, an Err
C18_SuccessOrOneFailure ==
    /\ SuccessMeansEveryStepPassed
    /\ (call.via = "execute" /\ result.kind # "Ok") => result.kind = "Err"

\* the state store once the declarations decls[1..n] have been written over it
RECURSIVE StoreAfter(_, _, _)
StoreAfter(store, decls, n) ==
    IF n = 0 THEN store
    ELSE Insert(StoreAfter(store, decls, n - 1), decls[n].name, decls[n].value)

\* the call ran a screen whose only UI element is a button with an If action
RanOneIf ==
    /\ call.via = "execute"
    /\ call.app.screens # <<>>
    /\ Len(call.app.screens[1].ui) = 1
    /\ call.app.screens[1].ui[1].k = "Button"
    /\ call.app.screens[1].ui[1].action.k = "If"
    /\ \E i \in 1..Len(call.at_return.execution_log) :
          call.at_return.execution_log[i] = ActionExecuted(call.app.screens[1].ui[1].action)

TheIf == call.app.screens[1].ui[1].action

\* the state store when the If action is reached
StoreAtTheIf ==
    StoreAfter(StoreAfter(call.before.state, call.app.state, Len(call.app.state)),
               call.app.screens[1].state, Len(call.app.screens[1].state))

\* the two sides of a condition `left == right`
CondLeft(c) == trim(SubSeq(trim(c), 1, find(trim(c), T_eqeq) - 1))
CondRight(c) == trim(SubSeq(trim(c), find(trim(c), T_eqeq) + 2, Len(trim(c))))

IsLiteral(x) ==
    \/ parse_i64(x) # None
    \/ Len(x) >= 2 /\ starts_with(x, T_quote) /\ ends_with(x, T_quote)
LiteralValue(x) ==
    IF parse_i64(x) # None THEN VNumber(parse_i64(x)[1])
    ELSE VString(SubSeq(x, 2, Len(x) - 1))

\* c has the form v == lit with v a variable of the store
IsVarEqLit(c, store) ==
    /\ find(trim(c), T_eqeq) # 0
    /\ CondLeft(c) \in DOMAIN store
    /\ IsLiteral(CondRight(c))

\* c has no equality at all
OutsideTheGrammar(c) == find(trim(c), T_eqeq) = 0 /\ trim(c) \notin {T_true, T_false}

BranchRan(a) ==
    \E i \in 1..Len(call.at_return.execution_log) :
        call.at_return.execution_log[i] = ActionExecuted(a)

\* a condition outside the grammar is false and no error: the run goes on
\* to the budget checks that follow the screen
OutsideTheGrammarIsFalse ==
    (RanOneIf /\ OutsideTheGrammar(TheIf.condition))
    => /\ ~BranchRan(TheIf.then)
       /\ call.at_return.err \in {None, Some("Memory limit exceeded")}

\* C19: an If action whose condition is v == lit, v a state variable and lit
\* a numeric or quoted literal, runs its then-branch exactly when the value
\* of v equals lit and its else-branch, if it has one, otherwise; a condition
\* outside the equality grammar is false and no error
C19_IfComparesTheVariable ==
    /\ (RanOneIf /\ IsVarEqLit(TheIf.condition, StoreAtTheIf))
       => /\ BranchRan(TheIf.then)
             <=> StoreAtTheIf[CondLeft(TheIf.condition)] = LiteralValue(CondRight(TheIf.condition))
          /\ TheIf.else_ # None
             => (BranchRan(TheIf.else_[1])
                 <=> StoreAtTheIf[CondLeft(TheIf.condition)]
                       # LiteralValue(CondRight(TheIf.condition)))
    /\ OutsideTheGrammarIsFalse

\* the value is within the ceilings of the state store
ValueWithinCeilings(value) ==
    /\ value.t = "String" => Len(value.v) <= 1000
    /\ value.t = "Array" => Len(value.v) <= 100
    /\ value.t = "Object" => Len(value.v) <= 50

\* C20: after any sequence of executions every entry of the state store has
\* a name of at most 50 characters without eval or exec and a value within
\* the ceilings (strings 1000, arrays 100, maps 50), whichever way it was
\* written: seeding, update-state, loop variable, input or list binding
C20_StoreWithinCeilings ==
    \A name \in DOMAIN runtime.state :
        /\ Len(name) <= 50
        /\ ~contains(name, T_eval)
        /\ ~contains(name, T_exec)
        /\ ValueWithinCeilings(runtime.state[name])

\* a declaration that StateVariable::validate rejects is not in the store
NotStored(decl) ==
    ~(decl.name \in DOMAIN runtime.state /\ runtime.state[decl.name] = decl.value)

\* the checks of update_state alone: a top-level declaration with a name or
\* a size that StateVariable::validate rejects makes execute fail unstored
OversizedOrMisnamedDeclFails ==
    call.via = "execute"
    => \A i \in 1..Len(call.app.state) :
          (\/ Len(call.app.state[i].name) > 50
           \/ Dangerous(call.app.state[i].name)
           \/ ~ValueWithinCeilings(call.app.state[i].value))
          => result.kind = "Err" /\ NotStored(call.app.state[i])

\* C21: every top-level state declaration undergoes the checks that
\* validation applies to screen-local declarations (name length, denylisted
\* name, string length, eval( or exec( inside a string value, array and map
\* size); a declaration that violates one makes execute fail and its value
\* is never stored
C21_TopLevelDeclsAreValidated ==
    call.via = "execute"
    => \A i \in 1..Len(call.app.state) :
          StateVariable_validate(call.app.state[i]) # Ok
          => result.kind = "Err" /\ NotStored(call.app.state[i])

\* the call ran a screen whose only UI element is a button
OneButton ==
    /\ call.via = "execute"
    /\ Len(call.app.screens) = 1
    /\ Len(call.app.screens[1].ui) = 1
    /\ call.app.screens[1].ui[1].k = "Button"

TheAction == call.app.screens[1].ui[1].action

\* the state store when the button is reached
StoreAtTheButton ==
    StoreAfter(StoreAfter(call.before.state, call.app.state, Len(call.app.state)),
               call.app.screens[1].state, Len(call.app.screens[1].state))

\* the function name contains a name of the analyzer's denylist
OnTheAnalyzersDenylist(function) ==
    \E blocked \in SecurityAnalyzer_default.blocked_functions : contains(function, blocked)

\* the runtime's own check: a name that contains eval or exec fails the
\* call, no argument is evaluated and the store is unchanged
EvalAndExecCallsFail ==
    (OneButton /\ TheAction.k = "CallFunction" /\ Dangerous(TheAction.function))
    => result.kind = "Err" /\ runtime.state = StoreAtTheButton

\* C22: a CallFunction action whose function name contains a capability
\* name of the security analyzer's denylist (eval, exec, system, shell, open,
\* file, fetch, socket, spawn, fork, ...) fails, no argument is evaluated and
\* the state store is unchanged
C22_DenylistedCallFails ==
    (OneButton /\ TheAction.k = "CallFunction" /\ OnTheAnalyzersDenylist(TheAction.function))
    => result.kind = "Err" /\ runtime.state = StoreAtTheButton

\* C23: the event log never holds more than 1000 events; once it holds 1000
\* every later event is dropped, the first 1000 stay as they are and in
\* order, and the run goes on: a dropped event is no failure
C23_LogKeepsTheFirstThousand ==
    /\ Len(runtime.execution_log) <= 1000
    /\ runtime.execution_log
         = SubSeq(runtime.g_offered, 1, Min(Len(runtime.g_offered), 1000))
    /\ Len(runtime.g_offered) > 1000
       => /\ ~runtime.panicked
          /\ runtime.err \in {None, Some("Memory limit exceeded")}
          /\ Len(runtime.g_starts) = Len(call.app.screens[1].ui)

IsNoErrorEvent(event) == event.e # "Error"

\* the events of the button, those that track_memory_usage logs left out
EventsOfTheButton ==
    SelectSeq(SubSeq(runtime.g_offered,
                     Len(call.app.state) + Len(call.app.screens[1].state) + 2,
                     Len(runtime.g_offered)),
              IsNoErrorEvent)

\* C24: a Navigation action leaves the state store and the memory counter
\* as they are, its only effect is the ActionExecuted event that records it,
\* and it fails only when its target is longer than 50 characters
C24_NavigationChangesNothing ==
    (OneButton /\ TheAction.k = "Navigation")
    => IF Len(TheAction.target) > 50
       THEN result.kind = "Err"
       ELSE /\ runtime.state = StoreAtTheButton
            /\ runtime.memory_usage
                 = runtime.g_starts[1] + Len(call.app.screens[1].ui[1].label) + 100
            /\ EventsOfTheButton = <<ActionExecuted(TheAction)>>
            /\ runtime.err \in {None, Some("Memory limit exceeded")}

\* the number of If branches and Loop bodies around the innermost action
RECURSIVE ActionDepth(_)
ActionDepth(a) ==
    CASE a.k = "If" ->
            1 + Max(ActionDepth(a.then),
                    IF a.else_ = None THEN 0 ELSE ActionDepth(a.else_[1]))
      [] a.k = "Loop" ->
            IF a.body = <<>> THEN 1
            ELSE 1 + SetMax({ActionDepth(a.body[i]) : i \in 1..Len(a.body)})
      [] OTHER -> 0

\* the one nesting limit of the code base, ResourceLimits::default().max_nesting_depth
ActionDepthCeiling == 10

\* C26: the interpreter threads a depth counter through nested actions, so
\* that executing (or validating) an action nested in If branches and Loop
\* bodies deeper than a fixed ceiling fails with a resource-limit error
C26_DeepNestingFails ==
    (call.via = "execute_sprout_app" /\ ActionDepth(call.app.screens[1].ui[1].action) > ActionDepthCeiling)
    => result.kind = "Err"

\* the most action executions one run of an action can make: a Loop runs its
\* body at most MAX_LOOP_ITERATIONS times, an If runs one of its branches once
RECURSIVE ActionBudget(_)
ActionBudget(a) ==
    CASE a.k = "If" ->
            1 + Max(ActionBudget(a.then),
                    IF a.else_ = None THEN 0 ELSE ActionBudget(a.else_[1]))
      [] a.k = "Loop" ->
            1 + MAX_LOOP_ITERATIONS
                  * SumRange([i \in 1..Len(a.body) |-> ActionBudget(a.body[i])], 1, Len(a.body))
      [] OTHER -> 1

\* the actions executed during the call
ActionsExecuted ==
    Cardinality({i \in 1..Len(call.at_return.g_offered) :
                    call.at_return.g_offered[i].e = "ActionExecuted"})

\* a run of an If executes its condition's branch and nothing else
IfRunsOneBranchOnce ==
    (call.via = "execute_sprout_app" /\ call.app.screens[1].ui[1].action.k = "If"
        /\ result.kind = "Ok")
    => ActionsExecuted <= ActionBudget(call.app.screens[1].ui[1].action)

\* C27: for every finite app and entry screen execute terminates: the loops
\* are bounded, an If runs at most one branch, and the run reaches a success
\* or a failure result after finitely many action executions
C27_RunReachesSuccessOrFailure ==
    call.via = "execute_sprout_app" =>
        /\ result.kind \in {"Ok", "Err"}
        /\ ActionsExecuted <= ActionBudget(call.app.screens[1].ui[1].action)

\* what holds of the loops whose width fits an i64: the run ends in success or
\* failure within the budget of its action
LoopWithinI64Terminates ==
    (call.via = "execute_sprout_app" /\ call.app.screens[1].ui[1].action.k = "Loop"
        /\ (Len(range_values(call.app.screens[1].ui[1].action.range)) = 2
              => ~LoopBounds(range_values(call.app.screens[1].ui[1].action.range)).ovf))
    => /\ result.kind \in {"Ok", "Err"}
       /\ ActionsExecuted <= ActionBudget(call.app.screens[1].ui[1].action)

\* a finished run of one Loop action whose range yields two endpoints and
\* whose body holds no failing action
RanOneLoop ==
    /\ call.via = "execute_sprout_app"
    /\ call.app.screens[1].ui[1].action.k = "Loop"
    /\ Len(range_values(call.app.screens[1].ui[1].action.range)) = 2
    /\ \A j \in 1..Len(call.app.screens[1].ui[1].action.body) :
          call.app.screens[1].ui[1].action.body[j] # A_fail
TheLoop == call.app.screens[1].ui[1].action
LowEndpoint == Min(range_values(TheLoop.range)[1], range_values(TheLoop.range)[2])
HighEndpoint == Max(range_values(TheLoop.range)[1], range_values(TheLoop.range)[2])
\* min(|b - a| + 1, 100), in the integers
ClaimedIterations == Min(HighEndpoint - LowEndpoint + 1, MAX_LOOP_ITERATIONS)
\* the positions in the call's events of the writes to the loop variable
Bindings ==
    {i \in 1..Len(call.at_return.g_offered) :
        /\ call.at_return.g_offered[i].e = "StateUpdated"
        /\ call.at_return.g_offered[i].name = TheLoop.variable}

\* the body ran min(|b - a| + 1, 100) times with the loop variable bound to
\* min(a, b), min(a, b) + 1, .. in turn, and the variable keeps its last value
LoopRanAsClaimed ==
    /\ result.kind = "Ok"
    /\ call.at_return.g_loops = <<ClaimedIterations>>
    /\ Cardinality(Bindings) = ClaimedIterations
    /\ \A i \in Bindings :
          call.at_return.g_offered[i].value
            = VNumber(LowEndpoint + Cardinality({j \in Bindings : j < i}))
    /\ TheLoop.variable \in DOMAIN call.at_return.state
    /\ call.at_return.state[TheLoop.variable]
         = VNumber(LowEndpoint + ClaimedIterations - 1)

\* what holds of the loops whose bounds are computed within i64
LoopWithinI64RunsAsClaimed ==
    (RanOneLoop /\ ~LoopBounds(range_values(TheLoop.range)).ovf) => LoopRanAsClaimed

\* C28: for all integer endpoints a and b of a Loop range, the extreme i64
\* values included, the loop runs exactly min(|b - a| + 1, 100) iterations
\* with the variable bound to min(a, b), min(a, b) + 1, .. in ascending order,
\* computing the count never overflows, and after the loop the variable holds
\* the last bound value
C28_LoopRunsItsExactCount ==
    RanOneLoop => (~LoopBounds(range_values(TheLoop.range)).ovf /\ LoopRanAsClaimed)

\* the bytes update_state adds to the memory counter for a value it accepts
SizeEstimate(value) ==
    CASE value.t = "String" -> Len(value.v)
      [] value.t = "Array" -> Len(value.v) * 8
      [] OTHER -> 0

UpdateReturned == call.via = "update_state"

\* a rejected write leaves the store, the memory counter and the log as they were
RejectedUpdateChangesNothing ==
    (UpdateReturned /\ result.kind = "Err")
    => /\ call.at_return.state = call.before.state
       /\ call.at_return.memory_usage = call.before.memory_usage
       /\ call.at_return.execution_log = call.before.execution_log

\* an accepted write changes the named entry alone and adds the size
\* estimate of the value to the memory counter
AcceptedUpdateWritesOneEntry ==
    (UpdateReturned /\ result.kind = "Ok")
    => /\ call.at_return.state = Insert(call.before.state, call.name, call.value)
       /\ call.at_return.memory_usage
            = call.before.memory_usage + SizeEstimate(call.value)

\* C29: a failing state update is atomic: a rejected write leaves the state
\* store, the memory counter and the event log exactly as before the call; a
\* successful update changes only the named entry, adds the value's size
\* estimate to the memory counter and appends one StateUpdated event if the
\* log is below its cap
C29_UpdateIsAtomic ==
    /\ RejectedUpdateChangesNothing
    /\ AcceptedUpdateWritesOneEntry
    /\ (UpdateReturned /\ result.kind = "Ok")
       => call.at_return.execution_log
            = IF Len(call.before.execution_log) < MAX_EVENTS
              THEN Append(call.before.execution_log, StateUpdated(call.name, call.value))
              ELSE call.before.execution_log

\* the same call made on a new runtime that holds the store of the earlier calls
CallOnNewRuntimeWithTheStore ==
    execute_run([WasmRuntime_new(call.before.options) EXCEPT !.state = call.before.state],
                call.app, call.start_screen, call.elapsed)

\* C30: on one runtime used for several execute calls, each call starts with
\* the memory counter at 0 and an empty event log, while the state store is
\* kept: the entries written by earlier executions, those that failed
\* part-way included, stay visible to later ones unless overwritten
C30_CallsShareOnlyTheStore ==
    call.via = "execute" =>
        /\ call.at_return.memory_usage = CallOnNewRuntimeWithTheStore.memory_usage
        /\ call.at_return.execution_log = CallOnNewRuntimeWithTheStore.execution_log
        /\ call.at_return.state = CallOnNewRuntimeWithTheStore.state
        /\ \A name \in DOMAIN call.before.state :
              /\ name \in DOMAIN call.at_return.state
              /\ call.at_return.state[name] # call.before.state[name]
                 => \E i \in 1..Len(call.at_return.g_offered) :
                       call.at_return.g_offered[i]
                         = StateUpdated(name, call.at_return.state[name])

---------------------------------------------------------------------------
(* Properties of the compiler *)

Compiled == creq.op = "compile_with_security" /\ cres # CompileIdle
Parsed == creq.op \in {"parse", "enhanced_parse"} /\ cres # CompileIdle

\* C2: compiling at Strict level a program that holds eval( returns Ok with a
\* CompileResult whose success flag is false and one of whose errors names eval
C2_DenylistedCapabilityIsAReportedFailure ==
    (Compiled /\ creq.security_level = "Strict" /\ contains(creq.source, T_eval_call))
    => /\ cres.kind = "Ok"
       /\ ~cres.success
       /\ \E i \in 1..Len(cres.errors) : contains(cres.errors[i], T_eval)

\* the source holds a pattern of the Strict denylist and nothing else stands
\* in the way of compiling it: no URL, it parses, and the analysis accepts it
FailsAtStrictOnlyForDenylist(source) ==
    /\ \E i \in 1..Len(StrictPatterns) : contains(to_lowercase(source), StrictPatterns[i][1])
    /\ url_find(source) = None
    /\ Only([parsed \in {parse(source)} |->
            /\ parsed.r = "Ok"
            /\ analyze_app(SecurityAnalyzer_default, parsed.v).err = None])

\* C3: a program that Strict rejects only for a denylisted substring compiles
\* at Permissive level with success true and at least one warning
C3_PermissiveDowngradesToWarning ==
    (Compiled /\ creq.security_level = "Permissive"
        /\ FailsAtStrictOnlyForDenylist(creq.source))
    => /\ cres.kind = "Ok"
       /\ cres.success
       /\ cres.warnings # <<>>

\* one screen Home, a single label, a start screen that is declared, no
\* denylisted substring and no URL
CleanSources ==
    {HelloWorldApp, Lines(OneLabel(N_Test, N_Home, X_Hello))}
    \cup {Words(OneLabel(N_Test, N_Home, text)) : text \in {X_Hello, W_Hello_World}}

\* C4: such a program compiles at Strict level with success true, risk level
\* Low and no error
C4_CleanProgramCompiles ==
    (Compiled /\ creq.security_level = "Strict" /\ creq.source \in CleanSources)
    => /\ cres.kind = "Ok"
       /\ cres.success
       /\ cres.security_report.risk_level = "Low"
       /\ cres.errors = <<>>

\* the string literals of a source, quotes included: from each odd quote to the next
StringLiterals(source) ==
    Only([quotes \in {Ascending({i \in 1..Len(source) : source[i] = "\""})} |->
        {SubSeq(source, quotes[2 * k - 1], quotes[2 * k]) : k \in 1..(Len(quotes) \div 2)}])

\* C5: every string literal of the source is one token, and the source of
\* test_string_literal_preservation parses to the app My App whose label is
\* the whole text This is a test
C5_StringLiteralIsOneToken ==
    (creq.op = "parse" /\ cres # CompileIdle)
    => /\ Only([toks \in {tokenize(creq.source)} |->
               \A lit \in StringLiterals(creq.source) :
                   \E i \in 1..Len(toks) : toks[i] = lit])
       /\ creq.source \in {Words(MyAppWords), Lines(MyAppWords)}
            => /\ cres.r = "Ok"
               /\ cres.v.name = W_My_App
               /\ cres.v.screens[1].ui = UI_Label(W_This_is_a_test)

\* C6: under the default limits the analysis accepts max_screens minimal
\* screens, and rejects one more with a resource limit on screens
C6_ScreenCeiling ==
    (ares # AnalyzeIdle /\ areq.analyzer = SecurityAnalyzer_default)
    => /\ areq.screens = ResourceLimits_default.max_screens => ares.err = None
       /\ areq.screens = ResourceLimits_default.max_screens + 1
            => ares.err = Some(ResourceLimit(M_screens, areq.screens,
                                             ResourceLimits_default.max_screens))

\* what the steps of the parser make of the source, before any validation
Syntax(source) == ParseTokens(tokenize(source))

\* C9: a program whose start screen is no declared screen fails with an
\* undefined reference that names the start screen, and every program the
\* parser returns starts at one of its screens
C9_StartScreenIsDeclared ==
    Parsed
    => /\ cres.r = "Ok" => cres.v.start_screen \in ScreenNames(cres.v)
       /\ Only([app \in {Syntax(creq.source)} |->
               (app.r = "Ok" /\ app.v.start_screen \notin ScreenNames(app.v))
               => /\ cres.r = "Err"
                  /\ cres.err.e = "UndefinedReference"
                  /\ contains(cres.err.what, app.v.start_screen)])

\* the targets of the buttons anywhere in the app's UI trees that are neither
\* a declared screen nor Back
UnresolvedTargets(app) ==
    UNION {NavigationTargets(app.screens[i].ui) : i \in 1..Len(app.screens)}
    \ (ScreenNames(app) \cup {M_Back})

\* C10: reference validation fails naming the target when a button anywhere
\* in a UI tree navigates to an unresolved name, and accepts no program that
\* has one
C10_NavigationTargetsResolve ==
    (creq.op = "enhanced_parse" /\ cres # CompileIdle)
    => /\ cres.r = "Ok" => UnresolvedTargets(cres.v) = {}
       /\ Only([app \in {Syntax(creq.source)} |->
               (app.r = "Ok" /\ app.v.start_screen \in ScreenNames(app.v)
                   /\ UnresolvedTargets(app.v) # {})
               => /\ cres.r = "Err"
                  /\ cres.err.e = "UndefinedReference"
                  /\ \E target \in UnresolvedTargets(app.v) :
                        contains(cres.err.what, target)])

\* the list sources and input bindings anywhere in a UI tree
RECURSIVE BoundNames(_)
BoundNames(ui) ==
    CASE ui.k = "List" -> {ui.items} \cup BoundNames(ui.child)
      [] ui.k = "Input" -> {ui.binding}
      [] ui.k = "Binding" -> {ui.variable}
      [] IsContainer(ui) -> UNION {BoundNames(ui.children[i]) : i \in 1..Len(ui.children)}
      [] ui.k = "Conditional" ->
            BoundNames(ui.then_branch)
            \cup (IF ui.else_branch # None THEN BoundNames(ui.else_branch[1]) ELSE {})
      [] OTHER -> {}

\* the bound names of each screen that are no state variable of that screen
UnresolvedBindings(app) ==
    UNION {BoundNames(app.screens[i].ui) \ StateNames(app.screens[i]) :
              i \in 1..Len(app.screens)}

\* C11: reference validation fails with an undefined reference when a list
\* source or an input binding anywhere in a screen's UI tree names no state
\* variable of that screen, and accepts no program that has such a name
C11_BindingsResolveInTheirScreen ==
    (creq.op = "enhanced_parse" /\ cres # CompileIdle)
    => /\ cres.r = "Ok" => UnresolvedBindings(cres.v) = {}
       /\ Only([app \in {Syntax(creq.source)} |->
               (app.r = "Ok" /\ UnresolvedBindings(app.v) # {})
               => /\ cres.r = "Err"
                  /\ cres.err.e = "UndefinedReference"])

\* RiskLevel in its order Low < Medium < High < Critical
RiskRank(level) ==
    CASE level = "Low" -> 0 [] level = "Medium" -> 1 [] level = "High" -> 2
      [] level = "Critical" -> 3

\* the report's risk level is the one its resources and warnings call for
Classified(report) ==
    /\ report.risk_level \in {"High", "Critical"}
         <=> (report.external_resources # {} \/ Len(report.security_warnings) > 3)
    /\ report.risk_level = "Medium"
         <=> (report.external_resources = {} /\ Len(report.security_warnings) \in 1..3)
    /\ report.risk_level = "Low"
         <=> (report.external_resources = {} /\ report.security_warnings = <<>>)

\* the report with one more warning, or one more resource, is classified no lower
NeverLowered(report) ==
    /\ RiskRank(risk_of(report.external_resources,
                        Append(report.security_warnings, M_External_URL_detected)))
         >= RiskRank(report.risk_level)
    /\ RiskRank(risk_of(report.external_resources \cup {W_http_colon_x_dot_io},
                        report.security_warnings))
         >= RiskRank(report.risk_level)

\* C12: in the report source validation returns and in the report of a
\* CompileResult, the risk level is High or Critical exactly when there is an
\* external resource or more than three warnings, Medium exactly when there
\* are one to three warnings and no external resource, Low otherwise; one
\* more warning or resource never lowers it
C12_RiskLevelFollowsFindings ==
    Compiled
    => /\ Only([checked \in {validate_source_code(creq.source, creq.security_level)} |->
               checked.r = "Ok" => Classified(checked.v) /\ NeverLowered(checked.v)])
       /\ cres.kind = "Ok"
            => Classified(cres.security_report) /\ NeverLowered(cres.security_report)

StrictlyAscending(v) == \A i \in 1..(Len(v) - 1) : StrLess(v[i], v[i + 1])

\* the entry points are, in ascending order and once each, the start screen
\* of the program and the navigation targets of its UI trees
EntryPointsAreStartAndTargets ==
    (Compiled /\ cres.kind = "Ok" /\ cres.success)
    => Only([ast \in {parse(creq.source).v} |->
           /\ StrictlyAscending(cres.entry_points)
           /\ {cres.entry_points[i] : i \in 1..Len(cres.entry_points)}
                = {ast.start_screen}
                  \cup UNION {NavigationTargets(ast.screens[i].ui) :
                                 i \in 1..Len(ast.screens)}])

\* C15: the entry points of a successfully compiled program are the sorted,
\* duplicate-free list of its start screen and of every navigation target in
\* its UI trees; for the program of three screens Home, Settings and Profile
\* that starts at Home and navigates among them, they are those three names
C15_EntryPoints ==
    /\ EntryPointsAreStartAndTargets
    /\ (Compiled /\ cres.kind = "Ok" /\ cres.success /\ creq.source \in NavSources)
       => cres.entry_points = <<N_Home, W_Profile, N_Settings>>

\* the number of levels between the root of a UI tree and its deepest node
RECURSIVE DeepestNode(_)
DeepestNode(ui) ==
    CASE IsContainer(ui) ->
            IF ui.children = <<>> THEN 0
            ELSE 1 + SetMax({DeepestNode(ui.children[i]) : i \in 1..Len(ui.children)})
      [] ui.k = "List" -> 1 + DeepestNode(ui.child)
      [] ui.k = "Conditional" ->
            1 + Max(DeepestNode(ui.then_branch),
                    IF ui.else_branch = None THEN 0 ELSE DeepestNode(ui.else_branch[1]))
      [] OTHER -> 0

\* the nesting limit of each level
NestingLimit(level) ==
    CASE level = "Strict" -> 10
      [] level = "Moderate" -> 15
      [] level = "Permissive" -> 25

IsNestingError(report) ==
    /\ report.err # None
    /\ report.err[1].e = "ResourceLimit"
    /\ report.err[1].resource = M_UI_nesting_depth

\* C25: the analysis of a UI tree fails with a resource-limit error for UI
\* nesting depth exactly when some node lies more than max_nesting_depth
\* levels below the root (10 at Strict, 15 at Moderate, 25 at Permissive),
\* every container, list template and conditional branch counting one level;
\* a tree whose deepest node is at the limit passes the check
C25_NestingDepthLimit ==
    (ares # AnalyzeIdle /\ areq.op = "nesting")
    => (IsNestingError(ares)
        <=> DeepestNode(areq.app.screens[1].ui) > NestingLimit(areq.level))

---------------------------------------------------------------------------
(* States in which the cases of the properties occur *)

\* a Loop action has run its body more than MAX_LOOP_ITERATIONS times
C1_LoopRanPastCeiling ==
    /\ call.via = "execute_sprout_app"
    /\ \E i \in 1..Len(call.at_return.g_loops) :
          call.at_return.g_loops[i] > MAX_LOOP_ITERATIONS

\* count = count + 1 has run on count = 0 and the run returned Ok
C7_CountPlusOneReturned ==
    /\ call.via = "execute"
    /\ call.app.state = <<StateVariable(N_count, VNumber(0))>>
    /\ call.start_screen = N_Home
    /\ Len(call.app.screens) = 1
    /\ call.app.screens[1].ui = <<Button(X_abc, A_inc)>>
    /\ call.elapsed = 0
    /\ call.before.options = RuntimeOptions_default
    /\ result.kind = "Ok"
    /\ runtime.state[N_count] = VString(X_count_plus_1)

\* an action has failed after the run had logged events, and execute returned Err
C8_FailedAfterEvents ==
    /\ RanAnAction
    /\ Failed(call.at_return)
    /\ ~call.at_return.panicked
    /\ call.at_return.execution_log # <<>>
    /\ result.kind = "Err"

\* a Strict compilation of a program holding eval( returned Err
C2_StrictReturnedErr ==
    /\ Compiled
    /\ creq.security_level = "Strict"
    /\ contains(creq.source, T_eval_call)
    /\ cres.kind = "Err"

\* a program Strict rejects only for a denylisted substring compiled at
\* Permissive level without a warning
C3_PermissiveWithoutWarning ==
    /\ Compiled
    /\ creq.security_level = "Permissive"
    /\ FailsAtStrictOnlyForDenylist(creq.source)
    /\ cres.kind = "Ok"
    /\ cres.success
    /\ cres.warnings = <<>>

\* the program with the label "Hello World" failed to compile at Strict level
C4_HelloWorldRejected ==
    /\ Compiled
    /\ creq.security_level = "Strict"
    /\ creq.source = HelloWorldApp
    /\ cres.kind = "Ok"
    /\ ~cres.success

\* the source of test_string_literal_preservation did not parse
C5_MyAppNotParsed ==
    /\ creq.op = "parse"
    /\ creq.source = Lines(MyAppWords)
    /\ cres # CompileIdle
    /\ cres.r = "Err"

\* max_screens minimal screens were rejected for their complexity
C6_CeilingRejected ==
    /\ ares # AnalyzeIdle
    /\ areq.analyzer = SecurityAnalyzer_default
    /\ areq.screens = ResourceLimits_default.max_screens
    /\ ares.err # None
    /\ ares.err[1].e = "ComplexityLimit"

\* parser::parse returned a program whose start screen is not declared
C9_UndeclaredStartReturned ==
    /\ creq.op = "parse"
    /\ cres # CompileIdle
    /\ cres.r = "Ok"
    /\ cres.v.screens # <<>>
    /\ cres.v.start_screen \notin ScreenNames(cres.v)

\* reference validation accepted a program with an unresolved navigation target
C10_UnresolvedTargetAccepted ==
    /\ creq.op = "enhanced_parse"
    /\ cres # CompileIdle
    /\ cres.r = "Ok"
    /\ UnresolvedTargets(cres.v) # {}

\* reference validation accepted a program with an input bound to a name that
\* is no state variable of its screen
C11_UnresolvedBindingAccepted ==
    /\ creq.op = "enhanced_parse"
    /\ cres # CompileIdle
    /\ cres.r = "Ok"
    /\ UnresolvedBindings(cres.v) # {}

\* a compilation succeeded with a report of risk High that holds no external
\* resource and no warning
C12_HighWithoutFindings ==
    /\ Compiled
    /\ cres.kind = "Ok"
    /\ cres.success
    /\ cres.security_report.risk_level = "High"
    /\ cres.security_report.external_resources = {}
    /\ cres.security_report.security_warnings = <<>>

C14_EmptyAppFailed ==
    /\ call.via = "execute"
    /\ call.app = EmptyApp
    /\ call.start_screen = N_Home
    /\ call.elapsed = 0
    /\ runs = 1
    /\ call.before.options.max_memory = 100
    /\ result.kind = "Err"
    /\ result.error = "Start screen not found"

\* the program of three screens, its start written "Home", compiled with four
\* entry points
C15_FourEntryPoints ==
    /\ Compiled
    /\ creq.source = NavApp(Q(N_Home))
    /\ cres.kind = "Ok"
    /\ cres.success
    /\ Len(cres.entry_points) = 4

\* a button ran, and wrote to the state, after the memory counter had
\* exceeded the ceiling at the button before it
C16_RanPastTheMemoryCeiling ==
    /\ call.via = "execute"
    /\ Len(call.at_return.g_starts) = 2
    /\ call.at_return.g_starts[2] > call.before.options.max_memory
    /\ call.app.screens[1].ui[2] = Button(X_abc, A_setx)
    /\ N_x \in DOMAIN runtime.state
    /\ runtime.state[N_x] = VString(<<"h", "i">>)
    /\ result.kind = "Err"
    /\ result.error = "Memory limit exceeded"

\* a loop body failed at its second action in the first iteration, after a
\* state write, and the run returned Err
C17_LoopBodyFailed ==
    /\ call.via = "execute"
    /\ call.app.screens # <<>>
    /\ call.app.screens[1].ui
         = <<Button(X_abc, Loop(N_i, RangeText(0, 2), <<A_set5, A_fail, A_setx>>))>>
    /\ result.kind = "Err"
    /\ runtime.state[N_i] = VNumber(0)
    /\ runtime.state[N_count] = VNumber(5)

\* a button failed and the run returned Err with a button still to come
C17_FailedBeforeLastElement ==
    /\ call.via = "execute"
    /\ call.app.screens # <<>>
    /\ call.app.screens[1].ui = <<Button(X_abc, A_fail), Button(X_abc, A_set5)>>
    /\ call.app.state = <<>>
    /\ runs = 1
    /\ result.kind = "Err"
    /\ Len(call.at_return.g_starts) = 1

\* execute on a valid program whose only label has the text of one double
\* quote returned neither Ok nor Err: it panicked in evaluate_expression
C18_ExecutePanicked ==
    /\ call.via = "execute"
    /\ App_validate(call.app) = Ok
    /\ call.app.screens # <<>>
    /\ call.app.screens[1].ui = <<Label(T_quote)>>
    /\ result.kind = "Panic"
    /\ call.at_return.err = Some("slice index starts at 1 but ends at 0")

\* count was 0 when `if count == 0` ran, and the else-branch set it to 5
C19_ElseRanThoughEqual ==
    /\ RanOneIf
    /\ TheIf = A_if_count_is_0
    /\ N_count \in DOMAIN StoreAtTheIf
    /\ StoreAtTheIf[N_count] = VNumber(0)
    /\ result.kind = "Ok"
    /\ BranchRan(A_set5)
    /\ ~BranchRan(A_setx)
    /\ runtime.state[N_count] = VNumber(5)

\* the store holds a value at each of the three ceilings, one of them under
\* a name of 50 characters, and the seeding of a string of 1001 characters
\* has just been refused
C20_OversizedWriteRefused ==
    /\ call.via = "execute"
    /\ call.app.state = <<StateVariable(N_x, VString(TextOfLen(1001)))>>
    /\ result.kind = "Err"
    /\ result.error = "String value too long"
    /\ DOMAIN runtime.state = {NameOfLen(50), N_x, N_count}
    /\ runtime.state[NameOfLen(50)] = VString(TextOfLen(1000))
    /\ runtime.state[N_x] = VArray(ItemsOfLen(100))
    /\ runtime.state[N_count] = VObject(ItemsOfLen(50))

\* the top-level declaration x = "eval(1)", which StateVariable::validate
\* rejects, was seeded: execute returned Ok and the store holds the text
C21_EvalTextSeeded ==
    /\ call.via = "execute"
    /\ call.app.state = <<StateVariable(N_x, VString(X_eval_call))>>
    /\ StateVariable_validate(call.app.state[1]) = Err("String value contains dangerous function calls")
    /\ result.kind = "Ok"
    /\ runtime.state[N_x] = VString(X_eval_call)

\* the call system(5) ran and execute returned Ok
C22_SystemCallRan ==
    /\ OneButton
    /\ TheAction = CallFunction(F_system, <<X_5>>)
    /\ F_system \in SecurityAnalyzer_default.blocked_functions
    /\ result.kind = "Ok"
    /\ \E i \in 1..Len(result.events) : result.events[i] = ActionExecuted(TheAction)

\* the argument of the call system(") was evaluated: the slice of its text panicked
C22_ArgumentOfSystemEvaluated ==
    /\ OneButton
    /\ TheAction = CallFunction(F_system, <<T_quote>>)
    /\ result.kind = "Panic"

\* a loop offered 1102 events: the log holds the first 1000, every one of
\* the 100 iterations ran and execute returned Ok
C23_EventsDropped ==
    /\ OneButton
    /\ TheAction.k = "Loop"
    /\ Len(runtime.g_offered) = 1102
    /\ Len(runtime.execution_log) = 1000
    /\ runtime.g_loops = <<100>>
    /\ runtime.state[N_i] = VNumber(99)
    /\ result.kind = "Ok"
    /\ Len(result.events) = 1000

\* a navigation to a target of 50 characters ran on a runtime whose store
\* an earlier run had filled, and execute returned Ok
C24_NavigatedWithStateInTheStore ==
    /\ OneButton
    /\ TheAction = Navigation(NameOfLen(50))
    /\ runs = 2
    /\ DOMAIN call.before.state = {N_i, N_x}
    /\ runtime.state = call.before.state
    /\ runtime.memory_usage = 103
    /\ result.kind = "Ok"

\* a label under 16 list templates was refused at Moderate level, at depth 16
C25_SixteenLevelsRefused ==
    /\ areq.op = "nesting"
    /\ areq.level = "Moderate"
    /\ areq.app = NestedApp("List", 16)
    /\ ares # AnalyzeIdle
    /\ ares.err = Some(ResourceLimit(M_UI_nesting_depth, 16, 15))

\* a label under 25 columns passed the whole analysis at Permissive level
C25_TwentyFiveLevelsPass ==
    /\ areq.op = "nesting"
    /\ areq.level = "Permissive"
    /\ areq.app = NestedApp("Column", 25)
    /\ ares # AnalyzeIdle
    /\ ares.err = None

\* an action under 14 nested If branches and Loop bodies was validated and
\* executed: execute returned Ok and the innermost action wrote x
C26_FourteenLevelsRan ==
    /\ call.via = "execute_sprout_app"
    /\ call.app.screens[1].ui[1].action = NestedAction("Mixed", 14)
    /\ ActionDepth(call.app.screens[1].ui[1].action) = 14
    /\ App_validate(call.app) = Ok
    /\ result.kind = "Ok"
    /\ call.at_return.state[N_x] = VString(<<"h", "i">>)
    /\ Len(call.at_return.g_loops) = 5

\* a run over a range wider than i64 ended without a success or a failure result
C27_LoopEndedInAPanic ==
    /\ call.via = "execute_sprout_app"
    /\ overflow_checks
    /\ call.app.screens[1].ui[1].action.range = RangeText(MinInt, MaxInt)
    /\ result.kind = "Panic"
    /\ call.at_return.g_loops = <<>>

\* a loop from i64::MAX to i64::MAX has returned Ok without running its body
C28_LoopAtMaxRanZeroTimes ==
    /\ RanOneLoop
    /\ ~overflow_checks
    /\ TheLoop.range = RangeText(MaxInt, MaxInt)
    /\ result.kind = "Ok"
    /\ call.at_return.g_loops = <<0>>
    /\ TheLoop.variable \notin DOMAIN call.at_return.state

\* an accepted write with the log one below its cap whose StateUpdated event
\* is not in the log
C29_ErrorEventTookTheLastSlot ==
    /\ UpdateReturned
    /\ result.kind = "Ok"
    /\ Len(call.before.execution_log) = MAX_EVENTS - 1
    /\ call.value.t = "String"
    /\ Len(call.at_return.execution_log) = MAX_EVENTS
    /\ call.at_return.execution_log[MAX_EVENTS] = ErrorEvent("Memory limit exceeded")

\* a write has been rejected on a runtime that holds state, memory and events
C29_WriteRejectedAfterAnAcceptedOne ==
    /\ UpdateReturned
    /\ result.kind = "Err"
    /\ call.before.state # <<>>
    /\ call.before.memory_usage > 0
    /\ call.before.execution_log # <<>>

\* after a call that seeded count = 0 and then did not find its start screen,
\* a call of an app without count has returned Ok with count = 0 in the store
C30_SeededCountSeenByTheNextCall ==
    /\ call.via = "execute"
    /\ call.before.err = Some("Start screen not found")
    /\ call.before.state = (N_count :> VNumber(0))
    /\ call.before.execution_log # <<>>
    /\ call.app.state = <<>>
    /\ result.kind = "Ok"
    /\ N_count \in DOMAIN result.final_state
    /\ result.final_state[N_count] = VNumber(0)
    /\ \A i \in 1..Len(result.events) : result.events[i].e # "StateUpdated"

\* a call has returned a memory counter below the one the runtime had before it
C30_CounterStartedFromZero ==
    /\ call.via = "execute"
    /\ call.before.memory_usage >= 1000
    /\ result.kind = "Ok"
    /\ result.memory_usage < 1000
    /\ Len(call.before.execution_log) > Len(result.events)

=============================================================================
